---- MODULE Spec2Model ----
(***************************************************************************)
(* A model of src/main.rs of rp2040badge: the pseudo-random generator, the *)
(* fixed-capacity image buffers, the display window protocol and the       *)
(* transition effects that stream pixel rows to the display.               *)
(*                                                                         *)
(* Conventions                                                             *)
(*  - A u32 is a record [hi, lo] of its two 16-bit halves, since the model *)
(*    checker's integers are 32-bit signed.                                *)
(*  - An arithmetic operation that can overflow yields [v, ovf]: v is the  *)
(*    wrapped result and ovf says whether it overflowed.  An overflow      *)
(*    panics when the build checks overflow and wraps when it does not;    *)
(*    the actions take either outcome.                                     *)
(*  - An arena is kept sparsely: wr maps the indices of the bytes assigned *)
(*    since construction to their values; every other byte is still the 0  *)
(*    of the [0u8; N] initializer.                                         *)
(*  - A pixel sent to the display is named by where it comes from: a       *)
(*    number p >= 0 is pixel p of the source image (its two buffer bytes   *)
(*    2p and 2p+1, in buffer order), FillZero is the value 0, and Prior is *)
(*    whatever the display showed before the effect started.               *)
(***************************************************************************)
EXTENDS Integers, Sequences, FiniteSets, TLC

VARIABLES
    pc,     \* where the running operation stands: "idle", "done", "panic", or a loop label
    op,     \* the operation last called, with its arguments
    loop,   \* the loop counters of the running operation
    rng,    \* Random.0 of the program's generator
    rng2,   \* Random.0 of a second generator
    ret,    \* the value the last call returned
    draws,  \* how many times each generator was drawn from
    imgs,   \* the image buffers constructed so far, oldest first
    main,   \* where main's loop stands: the statement running and the passes completed
    calls,  \* the set_windows calls of the last step, with their arguments
    win,    \* the display's window registers, as last transmitted
    wire,   \* the messages the last step sent over the transport
    disp    \* the display's frame memory, for the watched rows

vars == <<pc, op, loop, rng, rng2, ret, draws, imgs, main, calls, win, wire, disp>>

(***************************************************************************)
(* Bounds of the model.                                                    *)
(***************************************************************************)
MaxDraws == 12
MaxDim == 5
MaxPat == 2
MaxMirror == 2

(***************************************************************************)
(* Program constants.                                                      *)
(***************************************************************************)
LCD_HEIGHT == 240
LCD_WIDTH == 240
RandomSeed == 12345
LcgMul == 1664525
LcgAdd == 1013904223
GetDivisor == 23
Arena8k == 8192
Arena512 == 512
Clamp8k == 8192
Clamp512 == 256
ClampNum512 == 255

U8 == 0..255
None == [fn |-> "none"]

(***************************************************************************)
(* Rust integer arithmetic.                                                *)
(***************************************************************************)
\* i32 `/`: truncates toward zero (b > 0)
TruncDiv(a, b) == IF a >= 0 THEN a \div b ELSE -((-a) \div b)

\* i32 `%`: the remainder has the sign of the dividend (b > 0)
TruncRem(a, b) == a - b * TruncDiv(a, b)

\* u8 `+`
AddU8(a, b) == [v |-> (a + b) % 256, ovf |-> a + b > 255]

\* u8 `-`
SubU8(a, b) == [v |-> (a - b) % 256, ovf |-> a - b < 0]

\* u8 `*`
MulU8(a, b) == [v |-> (a * b) % 256, ovf |-> a * b > 255]

\* i16 `*`
MulI16(a, b) ==
    [v |-> (((a * b) + 32768) % 65536) - 32768,
     ovf |-> a * b > 32767 \/ a * b < -32768]

\* `as u8` of an integer
AsU8(a) == a % 256

(***************************************************************************)
(* struct Random(u32)                                                      *)
(***************************************************************************)
U32(hi, lo) == [hi |-> hi, lo |-> lo]

Random_new == U32(RandomSeed \div 65536, RandomSeed % 65536)

\* get_u32 as it would be with the multiplier cut to its low 16 bits
get_u32_mul16(s) ==
    LET ml == LcgMul % 65536
        ah == LcgAdd \div 65536
        al == LcgAdd % 65536
        p  == s.lo * ml
        l  == (p % 65536) + al
        h  == s.hi * ml + (p \div 65536) + ah + (l \div 65536)
    IN [hi |-> h % 65536, lo |-> l % 65536]

\* self.0.wrapping_mul(1664525).wrapping_add(1013904223), on 16-bit halves
get_u32(s) ==
    LET mh == LcgMul \div 65536
        ml == LcgMul % 65536
        ah == LcgAdd \div 65536
        al == LcgAdd % 65536
        p  == s.lo * ml
        l  == (p % 65536) + al
        h  == s.hi * ml + s.lo * mh + (p \div 65536) + ah + (l \div 65536)
    IN U32(h % 65536, l % 65536)

\* x / 23 of a u32, low 16 bits of the quotient
Div23Low(s) == (((s.hi % GetDivisor) * 65536) + s.lo) \div GetDivisor

\* ((self.get_u32() / 23) & 0xFFFF) as u16, of the state get_u32 returned
get_u16(s) == Div23Low(s) % 65536

\* ((self.get_u32() / 23) & 0xFF) as u8, of the state get_u32 returned
get_u8(s) == Div23Low(s) % 256

(***************************************************************************)
(* struct ImageBuffer8k, struct ImageBuffer512                             *)
(***************************************************************************)
Image(cap, w, h, wr) == [cap |-> cap, w |-> w, h |-> h, wr |-> wr]

NoBytes == [k \in {} |-> 0]

\* self.buffer[k]
ByteAt(img, k) == IF k \in DOMAIN img.wr THEN img.wr[k] ELSE 0

ImageBuffer8k_new(w, h) ==
    LET p  == MulI16(w, h)
        hh == IF p.v >= Clamp8k THEN AsU8(Clamp8k \div w) ELSE h
    IN [img |-> Image(Arena8k, w, hh, NoBytes), ovf |-> p.ovf]

ImageBuffer512_new(w, h) ==
    LET p  == MulI16(w, h)
        hh == IF p.v >= Clamp512 THEN ClampNum512 \div w ELSE h
    IN [img |-> Image(Arena512, w, hh, NoBytes), ovf |-> p.ovf]

swap_xy(img) == [img EXCEPT !.w = img.h, !.h = img.w]

\* (self.w as usize) * (self.h as usize) * 2, the end of the slice buffer() takes
BufferLen(img) == img.w * img.h * 2

\* &self.buffer[..len]: the slice exists when it lies inside the arena
BufferOk(img) == BufferLen(img) <= img.cap

\* b[k] = v on the arena
SetByte(img, k, v) == [img EXCEPT !.wr = (k :> v) @@ img.wr]

\* MyImage::set_pixel_b: buffer_mut() is the slice [..BufferLen], indexed at offset, offset + 1
set_pixel_b(img, x, y, c) ==
    LET offset == 2 * (x + y * img.w)
    IN [img |-> SetByte(SetByte(img, offset, c[1]), offset + 1, c[2]),
        panic |-> ~BufferOk(img) \/ offset + 1 >= BufferLen(img)]

\* MyImage::get_pixel_b
get_pixel_b(img, x, y) ==
    LET offset == 2 * (x + y * img.w)
    IN <<ByteAt(img, offset), ByteAt(img, offset + 1)>>

\* one iteration of mirror_gradient's loop as it would be with the true
\* mirror index count - 1 - i
MirrorStepTrue(self, r, count, i) ==
    IF r.panic THEN r
    ELSE [img |-> SetByte(SetByte(r.img, 2 * (count - 1 - i), ByteAt(self, 2 * i)),
                          2 * (count - 1 - i) + 1, ByteAt(self, 2 * i + 1)),
          panic |-> FALSE]

\* iteration i of `for i in 0..count` of mirror_gradient: two indexed
\* assignments on the arenas, each panicking past the end of its arena
MirrorStep(self, r, count, i) ==
    IF r.panic THEN r
    ELSE IF 2 * (count - i) + 1 >= r.img.cap \/ 2 * i + 1 >= self.cap
         THEN [img |-> r.img, panic |-> TRUE]
         ELSE [img |-> SetByte(SetByte(r.img, 2 * (count - i), ByteAt(self, 2 * i)),
                               2 * (count - i) + 1, ByteAt(self, 2 * i + 1)),
               panic |-> FALSE]

\* iterations lo .. hi-1 of the loop, in order
RECURSIVE MirrorLoop(_, _, _, _, _)
MirrorLoop(self, r, count, lo, hi) ==
    IF hi <= lo THEN r
    ELSE IF hi = lo + 1 THEN MirrorStep(self, r, count, lo)
    ELSE LET first == MirrorLoop(self, r, count, lo, (lo + hi) \div 2)
         IN IF first.panic THEN first
            ELSE MirrorLoop(self, first, count, (lo + hi) \div 2, hi)

\* ImageBuffer512::mirror_gradient
mirror_gradient(self) ==
    LET n == ImageBuffer512_new(self.w, self.h)
        r == MirrorLoop(self, [img |-> n.img, panic |-> FALSE],
                        self.w * self.h, 0, self.w * self.h)
    IN [img |-> r.img, panic |-> r.panic, ovf |-> n.ovf]

(***************************************************************************)
(* Common pieces of the specifications: each specification runs one part   *)
(* of the program and leaves the variables of the other parts alone.       *)
(***************************************************************************)
NoWindow == [xs |-> 0, xe |-> 0, ys |-> 0, ye |-> 0]
NoRows == [r \in {} |-> <<>>]

RngIdle == rng = Random_new /\ rng2 = Random_new /\ draws = <<0, 0>>
LcdIdle == win = NoWindow /\ wire = <<>> /\ calls = <<>> /\ disp = NoRows
MainIdle == main = [stmt |-> 0, i |-> 0, passes |-> 0]

rngVars == <<rng, rng2, draws>>
lcdVars == <<calls, win, wire, disp>>

Panic(call) ==
    /\ pc' = "panic"
    /\ op' = call
    /\ UNCHANGED <<loop, ret, imgs, rngVars, lcdVars, main>>

(***************************************************************************)
(* SpecBuf: constructing a buffer with any dimensions, swapping its axes   *)
(* and taking its pixel slice.                                             *)
(***************************************************************************)
InitBuf ==
    /\ pc = "idle" /\ op = None /\ loop = <<>> /\ ret = None /\ imgs = <<>>
    /\ RngIdle /\ LcdIdle /\ MainIdle

Constructed(call, r) ==
    \/ r.ovf /\ Panic(call)
    \/ /\ pc' = "idle"
       /\ op' = call
       /\ imgs' = <<r.img>>
       /\ UNCHANGED <<loop, ret, rngVars, lcdVars, main>>

New8k ==
    /\ pc = "idle" /\ imgs = <<>>
    /\ \E w \in U8, h \in U8 :
          Constructed([fn |-> "ImageBuffer8k::new", w |-> w, h |-> h],
                      ImageBuffer8k_new(w, h))

New512 ==
    /\ pc = "idle" /\ imgs = <<>>
    /\ \E w \in U8, h \in U8 :
          Constructed([fn |-> "ImageBuffer512::new", w |-> w, h |-> h],
                      ImageBuffer512_new(w, h))

SwapXY ==
    /\ pc = "idle" /\ imgs # <<>>
    /\ op' = [fn |-> "swap_xy"]
    /\ imgs' = [imgs EXCEPT ![Len(imgs)] = swap_xy(imgs[Len(imgs)])]
    /\ UNCHANGED <<pc, loop, ret, rngVars, lcdVars, main>>

\* MyImage::buffer of the newest image: the slice, or a panic when it leaves the arena
Buffer ==
    /\ pc = "idle" /\ imgs # <<>> /\ op.fn # "buffer"
    /\ LET img == imgs[Len(imgs)] IN
       IF BufferOk(img)
       THEN /\ op' = [fn |-> "buffer"]
            /\ ret' = [len |-> BufferLen(img)]
            /\ UNCHANGED <<pc, loop, imgs, rngVars, lcdVars, main>>
       ELSE Panic([fn |-> "buffer"])

NextBuf == New8k \/ New512 \/ SwapXY \/ Buffer

SpecBuf == InitBuf /\ [][NextBuf]_vars

\* C1: ImageBuffer8k::new(100, 100) yields width 100 and height 40 (= 8192/100/2)
C1_New100x100Height40 ==
    (op = [fn |-> "ImageBuffer8k::new", w |-> 100, h |-> 100] /\ pc = "idle")
        => (imgs[1].w = 100 /\ imgs[1].h = 40)

\* C2: for both buffer variants, after new(w, h) and any number of swap_xy
\* calls, width*height*2 never exceeds the arena, and buffer() is a valid
\* slice of length exactly 2*width*height
C2_PixelsFitArena ==
    /\ \A k \in 1..Len(imgs) : imgs[k].w * imgs[k].h * 2 <= imgs[k].cap
    /\ (op.fn = "buffer" =>
           (pc # "panic" /\ ret.len = 2 * imgs[Len(imgs)].w * imgs[Len(imgs)].h))

(***************************************************************************)
(* SpecRng: two generators, each constructed by Random::new and drawn from *)
(* independently.                                                          *)
(***************************************************************************)
InitRng ==
    /\ pc = "idle" /\ op = None /\ loop = <<>> /\ ret = None /\ imgs = <<>>
    /\ RngIdle /\ LcdIdle /\ MainIdle

\* random.get_u32() on the program's generator
GetU32 ==
    /\ draws[1] < MaxDraws
    /\ rng' = get_u32(rng)
    /\ ret' = [v |-> rng']
    /\ op' = [fn |-> "get_u32", gen |-> 1]
    /\ draws' = [draws EXCEPT ![1] = @ + 1]
    /\ UNCHANGED <<pc, loop, rng2, imgs, lcdVars, main>>

\* get_u32() on the second generator
GetU32Second ==
    /\ draws[2] < MaxDraws
    /\ rng2' = get_u32(rng2)
    /\ ret' = [v |-> rng2']
    /\ op' = [fn |-> "get_u32", gen |-> 2]
    /\ draws' = [draws EXCEPT ![2] = @ + 1]
    /\ UNCHANGED <<pc, loop, rng, imgs, lcdVars, main>>

\* random.get_u16(): calls get_u32, which moves the state
GetU16 ==
    /\ draws[1] < MaxDraws
    /\ rng' = get_u32(rng)
    /\ ret' = [v |-> get_u16(rng')]
    /\ op' = [fn |-> "get_u16", gen |-> 1]
    /\ draws' = [draws EXCEPT ![1] = @ + 1]
    /\ UNCHANGED <<pc, loop, rng2, imgs, lcdVars, main>>

\* random.get_u8(): calls get_u32, which moves the state
GetU8 ==
    /\ draws[1] < MaxDraws
    /\ rng' = get_u32(rng)
    /\ ret' = [v |-> get_u8(rng')]
    /\ op' = [fn |-> "get_u8", gen |-> 1]
    /\ draws' = [draws EXCEPT ![1] = @ + 1]
    /\ UNCHANGED <<pc, loop, rng2, imgs, lcdVars, main>>

NextRng == GetU32 \/ GetU32Second \/ GetU16 \/ GetU8

SpecRng == InitRng /\ [][NextRng]_vars

\* (s * 1664525 + 1013904223) mod 2^32 by long multiplication on the bytes
\* of s, of the multiplier and of the increment
LcgByBytes(s) ==
    LET s0 == s.lo % 256
        s1 == s.lo \div 256
        s2 == s.hi % 256
        s3 == s.hi \div 256
        a0 == LcgMul % 256
        a1 == (LcgMul \div 256) % 256
        a2 == (LcgMul \div 65536) % 256
        a3 == LcgMul \div 16777216
        c0 == LcgAdd % 256
        c1 == (LcgAdd \div 256) % 256
        c2 == (LcgAdd \div 65536) % 256
        c3 == LcgAdd \div 16777216
        t0 == s0 * a0 + c0
        t1 == s0 * a1 + s1 * a0 + c1 + (t0 \div 256)
        t2 == s0 * a2 + s1 * a1 + s2 * a0 + c2 + (t1 \div 256)
        t3 == s0 * a3 + s1 * a2 + s2 * a1 + s3 * a0 + c3 + (t2 \div 256)
    IN U32((t3 % 256) * 256 + (t2 % 256), (t1 % 256) * 256 + (t0 % 256))

\* C8: the generator starts from the seed 12345; each get_u32 call sets
\* state' = (state * 1664525 + 1013904223) mod 2^32 and returns state'; two
\* generators drawn from equally often from the same state are in the same
\* state again (the next value depends on nothing but the prior state)
C8_LcgStep ==
    /\ rng = U32(0, 12345) /\ rng2 = U32(0, 12345)
    /\ [][/\ (op'.fn = "get_u32" /\ op'.gen = 1 /\ draws'[1] # draws[1])
                 => (rng' = LcgByBytes(rng) /\ ret'.v = rng')
          /\ (op'.fn = "get_u32" /\ op'.gen = 2 /\ draws'[2] # draws[2])
                 => (rng2' = LcgByBytes(rng2) /\ ret'.v = rng2')
         ]_vars
    /\ [](draws[1] = draws[2] => rng = rng2)

\* two get_u32 draws from each generator: both hold the second value of the
\* sequence from seed 12345, 87628868 * 1664525 + 1013904223 mod 2^32 = 71072467
C8_Witness ==
    /\ draws = <<2, 2>>
    /\ op = [fn |-> "get_u32", gen |-> 1]
    /\ rng = U32(1084, 31443) /\ rng2 = rng /\ ret.v = rng

(***************************************************************************)
(* SpecMirror: mirror_gradient and swap_xy on 512-byte buffers.  The first *)
(* image is ImageBuffer512::new(w, h) with every pixel written through     *)
(* set_pixel_b; each mirror_gradient call is made on the newest image and  *)
(* its result becomes the newest image.                                    *)
(***************************************************************************)
DimSamples == (0..MaxDim) \cup {16, 51, 255}

\* byte k of the test pattern p (pattern 0 is the all-zero image)
PatByte(p, k) == (p * (k + 1)) % 256

\* set_pixel_b on the pixels lo .. hi-1, in buffer order
RECURSIVE FillLoop(_, _, _, _)
FillLoop(r, p, lo, hi) ==
    IF hi <= lo \/ r.panic THEN r
    ELSE IF hi = lo + 1
         THEN set_pixel_b(r.img, lo % r.img.w, lo \div r.img.w,
                          <<PatByte(p, 2 * lo), PatByte(p, 2 * lo + 1)>>)
         ELSE LET first == FillLoop(r, p, lo, (lo + hi) \div 2)
              IN IF first.panic THEN first
                 ELSE FillLoop(first, p, (lo + hi) \div 2, hi)

\* ImageBuffer512::new(w, h) with every pixel set from pattern p
Filled(img, p) == FillLoop([img |-> img, panic |-> FALSE], p, 0, img.w * img.h).img

InitMirror ==
    /\ pc = "idle" /\ op = None /\ loop = <<>> /\ ret = None
    /\ RngIdle /\ LcdIdle /\ MainIdle
    /\ \E w \in DimSamples, h \in DimSamples, p \in 0..MaxPat :
          LET n == ImageBuffer512_new(w, h)
          IN imgs = <<IF BufferOk(n.img) THEN Filled(n.img, p) ELSE n.img>>

Mirror ==
    /\ pc = "idle" /\ Len(imgs) <= MaxMirror
    /\ LET r == mirror_gradient(imgs[Len(imgs)])
           call == [fn |-> "mirror_gradient"]
       IN \/ (r.ovf \/ r.panic) /\ Panic(call)
          \/ /\ ~r.panic
             /\ op' = call
             /\ imgs' = Append(imgs, r.img)
             /\ UNCHANGED <<pc, loop, ret, rngVars, lcdVars, main>>

NextMirror == Mirror \/ SwapXY

SpecMirror == InitMirror /\ [][NextMirror]_vars

\* the two bytes of pixel j of an arena
PixelBytes(img, j) ==
    <<IF 2 * j \in DOMAIN img.wr THEN img.wr[2 * j] ELSE 0,
      IF 2 * j + 1 \in DOMAIN img.wr THEN img.wr[2 * j + 1] ELSE 0>>

ColumnAddressSet == 42
RowAddressSet == 43
MemoryWrite == 44

Cmd(b) == [t |-> "cmd", b |-> b]
Data(b) == [t |-> "data", b |-> b]
Pix(d) == [t |-> "pix", d |-> d]

\* the values a pixel on the wire or in frame memory can have, besides the
\* number p >= 0 of a source pixel
Prior == 0 - 1
FillZero == 0 - 2
FillOnes == 0 - 3
Mixed == 0 - 4
Noise == 0 - 5
Colour == 0 - 6
Garbage == 0 - 7

\* LoadedImage::buffer of a 240x240 asset: the blob without its two header bytes
SrcLen == 2 * LCD_WIDTH * LCD_HEIGHT

\* the number of the source pixel at (x, y)
SourcePixel(x, y) == x + y * LCD_WIDTH

\* a u16 is a record [lo, hi] of where its two bytes come from: an index
\* into the source buffer, or the same marker twice for a constant
U16Of(marker) == [lo |-> marker, hi |-> marker]

\* img.get_pixel_u16(x, y) with the bytes the other way round
get_pixel_u16_be(x, y) ==
    LET offset == 2 * (x + y * LCD_WIDTH) IN [lo |-> offset + 1, hi |-> offset]

\* img.get_pixel_u16(x, y) = (a as u16) + (b as u16) * 256 for the bytes a, b
\* at offset and offset + 1
get_pixel_u16(x, y) ==
    LET offset == 2 * (x + y * LCD_WIDTH) IN [lo |-> offset, hi |-> offset + 1]

\* the pixel the display takes from two successive bytes b1, b2 of the wire
PixelOf(b1, b2) ==
    IF b1 >= 0
    THEN (IF b1 % 2 = 0 /\ b2 = b1 + 1 THEN b1 \div 2 ELSE Garbage)
    ELSE (IF b2 = b1 THEN b1 ELSE Garbage)

\* DataFormat::U16 puts a u16 on the wire in the byte order of the target,
\* low byte first on the RP2040
U16Native(v) == PixelOf(v.lo, v.hi)

\* &img.buffer()[from..to] sent as DataFormat::U8
Slice(from, to) == [kind |-> "slice", from |-> from, to |-> to]
\* the row buffer of an effect at progress t, row y, sent as DataFormat::U16
Row(fn, t, y) == [kind |-> "row", fn |-> fn, t |-> t, y |-> y]
\* (0..size).map(|_| color) sent as DataFormat::U16BEIter
Solid(n) == [kind |-> "solid", n |-> n]
\* (0..size).map(|_| rand.get_u16()) sent as DataFormat::U16BEIter
NoiseIter(n) == [kind |-> "noise", n |-> n]

\* Lcd::set_windows: message k of the five and whether computing it overflows
Lcd_set_windows_end(x_start, y_start, x_end, y_end) ==
    [msgs |-> << Cmd(<<ColumnAddressSet>>),
                 Data(<<0, x_start, 0, x_end>>),
                 Cmd(<<RowAddressSet>>),
                 Data(<<0, y_start, 0, SubU8(y_end, 1).v>>),
                 Cmd(<<MemoryWrite>>) >>,
     ovf  |-> << FALSE, FALSE, FALSE, SubU8(y_end, 1).ovf, FALSE >>]

Lcd_set_windows(x_start, y_start, x_end, y_end) ==
    [msgs |-> << Cmd(<<ColumnAddressSet>>),
                 Data(<<0, x_start, 0, SubU8(x_end, 1).v>>),
                 Cmd(<<RowAddressSet>>),
                 Data(<<0, y_start, 0, SubU8(y_end, 1).v>>),
                 Cmd(<<MemoryWrite>>) >>,
     ovf  |-> << FALSE, SubU8(x_end, 1).ovf, FALSE, SubU8(y_end, 1).ovf, FALSE >>]

\* the free function set_windows: the same five messages
set_windows(x_start, y_start, x_end, y_end) ==
    [msgs |-> << Cmd(<<ColumnAddressSet>>),
                 Data(<<0, x_start, 0, SubU8(x_end, 1).v>>),
                 Cmd(<<RowAddressSet>>),
                 Data(<<0, y_start, 0, SubU8(y_end, 1).v>>),
                 Cmd(<<MemoryWrite>>) >>,
     ovf  |-> << FALSE, SubU8(x_end, 1).ovf, FALSE, SubU8(y_end, 1).ovf, FALSE >>]

(***************************************************************************)
(* The display: the window registers take the 16-bit start and end of the  *)
(* column and row ranges, both inclusive, and pixel data fills the window  *)
(* row by row from its first cell.                                         *)
(***************************************************************************)
DeviceWindow(w, sent) ==
    LET w1 == IF Len(sent) >= 2
              THEN [w EXCEPT !.xs = sent[2].b[1] * 256 + sent[2].b[2],
                             !.xe = sent[2].b[3] * 256 + sent[2].b[4]]
              ELSE w
    IN IF Len(sent) >= 4
       THEN [w1 EXCEPT !.ys = sent[4].b[1] * 256 + sent[4].b[2],
                       !.ye = sent[4].b[3] * 256 + sent[4].b[4]]
       ELSE w1

(***************************************************************************)
(* The row buffers of the frame-by-frame effects.                          *)
(***************************************************************************)
WaveTogether == 150
LogicTogether == 50
RotTogether == 200
TriTogether == 30

wave(x, period, amplitude) ==
    LET x1 == TruncRem(IF x > 0 THEN x ELSE period - x, 2 * period)
        x2 == IF x1 < period THEN x1 ELSE x1 - period
        sign == IF x1 < period THEN 1 ELSE 0 - 1
    IN TruncDiv(TruncDiv(TruncDiv(sign * x2 * (period - x2) * amplitude, period), period), 4)

InFrame(xx, yy) == xx >= 0 /\ xx < 240 /\ yy >= 0 /\ yy < 240

wave_r2(t, y, x) == TruncDiv((x - 120) * (x - 120) + (y - 120) * (y - 120), 10 + t)

\* w1 with the amplitude left at together instead of together - t
wave_w1_undamped(t, y, x) == wave(x + 5 * t + wave_r2(t, y, x), 30 + TruncDiv(t, 2), WaveTogether)

wave_w1(t, y, x) == wave(x + 5 * t + wave_r2(t, y, x), 30 + TruncDiv(t, 2), WaveTogether - t)

wave_w2(t, y, x) == wave(x + TruncDiv(wave_r2(t, y, x), 2), 20 + t, 2 * (WaveTogether - t))

\* buffer[x] of full_image_wave1 and of full_image_wave (the same expression)
wave_pixel(t, y, x) ==
    LET xx == x + wave_w1(t, y, x)
        yy == y + wave_w2(t, y, x)
    IN IF InFrame(xx, yy) THEN get_pixel_u16(AsU8(xx), AsU8(yy)) ELSE U16Of(FillZero)

\* the rows in the order full_image_wave and full_image_rot write them:
\* the even rows, then the odd rows
EvenOddRow(j) == IF j < LCD_HEIGHT \div 2 THEN 2 * j ELSE 2 * (j - LCD_HEIGHT \div 2) + 1

\* a | b | ... and a & b & ... of u16 values: the value itself when all
\* operands are the same value, otherwise a value known only by its operands
BitOr(S) ==
    IF Cardinality(S) = 1 THEN CHOOSE v \in S : TRUE
    ELSE [lo |-> Mixed, hi |-> Mixed, bits |-> "|", of |-> S]

BitAnd(S) ==
    IF Cardinality(S) = 1 THEN CHOOSE v \in S : TRUE
    ELSE [lo |-> Mixed, hi |-> Mixed, bits |-> "&", of |-> S]

\* buffer[x] of full_image_logic
logic_pixel(t, y, x) ==
    LET tt == LogicTogether - t IN
    IF InFrame(x - tt, y - tt) /\ InFrame(x + tt, y + tt)
    THEN BitOr({get_pixel_u16(AsU8(x - tt), y), get_pixel_u16(AsU8(x + tt), y),
                get_pixel_u16(x, AsU8(y - tt)), get_pixel_u16(x, AsU8(y + tt))})
    ELSE U16Of(FillOnes)

\* buffer[x] of full_image_logictri: the same range test on x1, x2, y1, y2,
\* three samples
logictri_pixel(t, y, x) ==
    LET tt == LogicTogether - t IN
    IF InFrame(x - tt, y - tt) /\ InFrame(x + tt, y + tt)
    THEN BitAnd({get_pixel_u16(AsU8(x - tt), y), get_pixel_u16(AsU8(x + tt), y),
                 get_pixel_u16(x, AsU8(y - tt))})
    ELSE U16Of(FillZero)

\* buffer[x] of full_image_tri with the inner loop one column short
tri_pixel_short(t, y, x) ==
    LET tt == TriTogether - t IN
    IF x < LCD_WIDTH - tt - 1
    THEN BitOr({get_pixel_u16(x, y),
                BitAnd({get_pixel_u16(x + tt, y), get_pixel_u16(x, y + tt)})})
    ELSE U16Of(FillZero)

\* buffer[x] of full_image_tri when row y is sent: `a | b & c` for the
\* x < LCD_WIDTH - tt the inner loop assigns; tt only shrinks, so the other
\* entries still hold the 0 the buffer was created with
tri_pixel(t, y, x) ==
    LET tt == TriTogether - t IN
    IF x < LCD_WIDTH - tt
    THEN BitOr({get_pixel_u16(x, y),
                BitAnd({get_pixel_u16(x + tt, y), get_pixel_u16(x, y + tt)})})
    ELSE U16Of(FillZero)

\* buffer[x] of full_image_rot with tt one step behind
rot_pixel_behind(t, y, x) ==
    LET tt == RotTogether - t + 1
        xx == x + TruncDiv((120 - y) * tt, 50)
        yy == y - TruncDiv((120 - x) * tt, 50)
    IN IF InFrame(xx, yy) THEN get_pixel_u16(AsU8(xx), AsU8(yy)) ELSE U16Of(Mixed)

rot_pixel(t, y, x) ==
    LET tt == RotTogether - t
        xx == x + TruncDiv((120 - y) * tt, 50)
        yy == y - TruncDiv((120 - x) * tt, 50)
    IN IF InFrame(xx, yy) THEN get_pixel_u16(AsU8(xx), AsU8(yy)) ELSE U16Of(Mixed)

RowPixel(fn, t, y, x) ==
    CASE fn = "full_image_wave"     -> wave_pixel(t, y, x)
      [] fn = "full_image_wave1"    -> wave_pixel(t, y, x)
      [] fn = "full_image_logic"    -> logic_pixel(t, y, x)
      [] fn = "full_image_logictri" -> logictri_pixel(t, y, x)
      [] fn = "full_image_tri"      -> tri_pixel(t, y, x)
      [] fn = "full_image_rot"      -> rot_pixel(t, y, x)

\* how many pixels a data message carries, and its k-th pixel
PixCount(d) ==
    CASE d.kind = "slice" -> (d.to - d.from) \div 2
      [] d.kind = "row"   -> LCD_WIDTH
      [] OTHER            -> d.n

PixAt(d, k) ==
    CASE d.kind = "slice" -> PixelOf(d.from + 2 * k, d.from + 2 * k + 1)
      [] d.kind = "row"   -> U16Native(RowPixel(d.fn, d.t, d.y, k))
      [] d.kind = "solid" -> Colour
      [] d.kind = "noise" -> Noise

\* the frame memory after the pixels of d went into window w: cell k of the
\* window, counted row by row, takes pixel k; more pixels than cells leave
\* the window's content undefined.  A row of the frame memory is the
\* sequence of its cells, column c at index c + 1.
Stream(d0, w, d) ==
    IF \/ w.xe < w.xs \/ w.ye < w.ys \/ PixCount(d) = 0
       \/ \A r \in DOMAIN d0 : r < w.ys \/ r > w.ye
    THEN d0
    ELSE [r \in DOMAIN d0 |->
            IF r < w.ys \/ r > w.ye THEN d0[r]
            ELSE [c1 \in 1..LCD_WIDTH |->
                    IF c1 - 1 < w.xs \/ c1 - 1 > w.xe THEN d0[r][c1]
                    ELSE IF PixCount(d) > (w.xe - w.xs + 1) * (w.ye - w.ys + 1) THEN Garbage
                    ELSE IF (r - w.ys) * (w.xe - w.xs + 1) + (c1 - 1 - w.xs) < PixCount(d)
                         THEN PixAt(d, (r - w.ys) * (w.xe - w.xs + 1) + (c1 - 1 - w.xs))
                         ELSE d0[r][c1]]]

(***************************************************************************)
(* One step of an effect is a short script of set_windows calls and data   *)
(* messages.  pre says that computing the arguments overflowed, bad that   *)
(* the slice to send is out of range (a panic in every build).             *)
(***************************************************************************)
SetW(fn, x_start, y_start, x_end, y_end, pre) ==
    [k |-> "win", fn |-> fn, x_start |-> x_start, y_start |-> y_start,
     x_end |-> x_end, y_end |-> y_end, pre |-> pre]
Send(d, bad) == [k |-> "pix", d |-> d, bad |-> bad, pre |-> FALSE]
\* an iterator sent as data; pre says that computing its length overflowed
SendIter(d, pre) == [k |-> "pix", d |-> d, bad |-> FALSE, pre |-> pre]

SendSlice(from, to) == Send(Slice(from, to), from > to \/ to > SrcLen)

\* the index of the first message whose computation overflows, 0 if none
FirstOvf(ovf) ==
    IF \E k \in 1..Len(ovf) : ovf[k]
    THEN CHOOSE k \in 1..Len(ovf) : ovf[k] /\ \A j \in 1..(k - 1) : ~ovf[j]
    ELSE 0

\* the call a script element stands for: the method or the free function
WindowCall(e) ==
    IF e.fn = "Lcd::set_windows"
    THEN Lcd_set_windows(e.x_start, e.y_start, e.x_end, e.y_end)
    ELSE set_windows(e.x_start, e.y_start, e.x_end, e.y_end)

\* the messages of call r that go out: all of them, or those before the
\* first overflow when overflow is checked
WindowSent(r, checked) ==
    IF checked /\ FirstOvf(r.ovf) # 0 THEN SubSeq(r.msgs, 1, FirstOvf(r.ovf) - 1) ELSE r.msgs

Windowed(e, st, r, sent) ==
    [calls |-> Append(st.calls, [fn |-> e.fn, x_start |-> e.x_start, y_start |-> e.y_start,
                                 x_end |-> e.x_end, y_end |-> e.y_end]),
     wire  |-> st.wire \o sent,
     win   |-> DeviceWindow(st.win, sent),
     disp  |-> st.disp,
     panic |-> Len(sent) < Len(r.msgs)]

Exec(e, checked, st) ==
    IF e.k = "win"
    THEN IF checked /\ e.pre THEN [st EXCEPT !.panic = TRUE]
         ELSE Windowed(e, st, WindowCall(e), WindowSent(WindowCall(e), checked))
    ELSE IF e.bad \/ (checked /\ e.pre) THEN [st EXCEPT !.panic = TRUE]
         ELSE [st EXCEPT !.wire = Append(@, Pix(e.d)),
                         !.disp = Stream(@, st.win, e.d)]

RECURSIVE Run(_, _, _, _)
Run(script, k, checked, st) ==
    IF k > Len(script) \/ st.panic THEN st
    ELSE Run(script, k + 1, checked, Exec(script[k], checked, st))

\* whether some arithmetic of the script overflows
Overflows(script) ==
    \E k \in 1..Len(script) :
        \/ script[k].pre
        \/ script[k].k = "win" /\ FirstOvf(WindowCall(script[k]).ovf) # 0

\* the outcome st of a step becomes the next state
Stepped(st, next_pc, next_loop) ==
    /\ calls' = st.calls
    /\ wire' = st.wire
    /\ win' = st.win
    /\ disp' = st.disp
    /\ IF st.panic
       THEN pc' = "panic" /\ UNCHANGED loop
       ELSE pc' = next_pc /\ loop' = next_loop

\* a step of the running operation: the script runs with overflow checks on
\* or off (the same run when nothing overflows), and the operation goes on
\* at next_pc unless the step panicked
LcdStep(script, next_pc, next_loop) ==
    \E checked \in (IF Overflows(script) THEN BOOLEAN ELSE {FALSE}) :
        Stepped(Run(script, 1, checked,
                    [calls |-> <<>>, wire |-> <<>>, win |-> win, disp |-> disp,
                     panic |-> FALSE]),
                next_pc, next_loop)

(***************************************************************************)
(* SpecWin: one call of either set_windows, with any sampled coordinates.  *)
(***************************************************************************)
MaxCoord == 1

CoordSamples == (0..MaxCoord) \cup ((LCD_WIDTH - MaxCoord)..LCD_WIDTH) \cup {120, 255}

InitWin ==
    /\ pc = "idle" /\ op = None /\ loop = <<>> /\ ret = None /\ imgs = <<>>
    /\ RngIdle /\ LcdIdle /\ MainIdle

CallSetWindows(fn) ==
    /\ pc = "idle"
    /\ \E x0 \in CoordSamples, y0 \in CoordSamples, x1 \in CoordSamples, y1 \in CoordSamples :
          /\ op' = [fn |-> fn, x_start |-> x0, y_start |-> y0, x_end |-> x1, y_end |-> y1]
          /\ LcdStep(<<SetW(fn, x0, y0, x1, y1, FALSE)>>, "done", loop)
    /\ UNCHANGED <<ret, imgs, rngVars, main>>

LcdSetWindows == CallSetWindows("Lcd::set_windows")

FreeSetWindows == CallSetWindows("set_windows")

NextWin == LcdSetWindows \/ FreeSetWindows

SpecWin == InitWin /\ [][NextWin]_vars

ValidWindow(c) ==
    /\ 0 <= c.x_start /\ c.x_start < c.x_end /\ c.x_end <= 240
    /\ 0 <= c.y_start /\ c.y_start < c.y_end /\ c.y_end <= 240

\* C3: for valid coordinates, either set_windows sends command 0x2A, data
\* [0, x0, 0, x1-1], command 0x2B, data [0, y0, 0, y1-1], command 0x2C, in
\* this order, and the call returns; the method and the free function send
\* the same sequence
C3_WindowMessages ==
    (op.fn \in {"Lcd::set_windows", "set_windows"} /\ ValidWindow(op)) =>
        /\ pc = "done"
        /\ wire = << Cmd(<<42>>), Data(<<0, op.x_start, 0, op.x_end - 1>>),
                     Cmd(<<43>>), Data(<<0, op.y_start, 0, op.y_end - 1>>),
                     Cmd(<<44>>) >>
        /\ Lcd_set_windows(op.x_start, op.y_start, op.x_end, op.y_end).msgs
              = set_windows(op.x_start, op.y_start, op.x_end, op.y_end).msgs
        /\ win = [xs |-> op.x_start, xe |-> op.x_end - 1,
                  ys |-> op.y_start, ye |-> op.y_end - 1]

C3_Witness ==
    /\ op = [fn |-> "Lcd::set_windows", x_start |-> 1, y_start |-> 0,
             x_end |-> 240, y_end |-> 120]
    /\ pc = "done"
    /\ wire = << Cmd(<<42>>), Data(<<0, 1, 0, 239>>), Cmd(<<43>>), Data(<<0, 0, 0, 119>>),
                 Cmd(<<44>>) >>

(***************************************************************************)
(* Watching the display: the frame memory is followed for the first and    *)
(* last rows and the middle row, each of them in full.  Before an effect   *)
(* starts every cell holds Prior.                                          *)
(***************************************************************************)
MaxWatch == 0

WatchRows ==
    (0..MaxWatch) \cup {LCD_HEIGHT \div 2} \cup ((LCD_HEIGHT - 1 - MaxWatch)..(LCD_HEIGHT - 1))

PriorRows == [r \in WatchRows |-> [c1 \in 1..LCD_WIDTH |-> Prior]]

LcdWatched == win = NoWindow /\ wire = <<>> /\ calls = <<>> /\ disp = PriorRows

\* every watched cell shows the source pixel at its own place
ShowsSource == \A r \in DOMAIN disp : \A c \in 0..(LCD_WIDTH - 1) : disp[r][c + 1] = SourcePixel(c, r)

(***************************************************************************)
(* SpecShift: full_image_horizontal_shift of a 240x240 image, one row per  *)
(* step, for sampled offsets.                                              *)
(***************************************************************************)
MaxOff == 2

OffsetSamples ==
    (0..MaxOff) \cup {120} \cup ((LCD_WIDTH - MaxOff)..LCD_WIDTH) \cup {LCD_WIDTH + 1, 255}

\* the body of `for i in 0..LCD_HEIGHT`
full_image_horizontal_shift_row(offset, i) ==
    LET w == SubU8(LCD_WIDTH, offset) IN
    << SetW("Lcd::set_windows", 0, i, w.v, i + 1, w.ovf),
       SendSlice(2 * (i * LCD_WIDTH + offset), 2 * (i + 1) * LCD_WIDTH),
       SetW("Lcd::set_windows", w.v, i, LCD_WIDTH, i + 1, w.ovf),
       SendSlice(2 * (i * LCD_WIDTH), 2 * (i * LCD_WIDTH + offset)) >>

InitShift ==
    /\ pc = "hshift" /\ loop = [i |-> 0] /\ ret = None /\ imgs = <<>>
    /\ \E o \in OffsetSamples : op = [fn |-> "full_image_horizontal_shift", offset |-> o]
    /\ RngIdle /\ LcdWatched /\ MainIdle

HShiftRow ==
    /\ pc = "hshift"
    /\ LcdStep(full_image_horizontal_shift_row(op.offset, loop.i),
               IF loop.i + 1 < LCD_HEIGHT THEN "hshift" ELSE "done",
               [i |-> loop.i + 1])
    /\ UNCHANGED <<op, ret, imgs, rngVars, main>>

NextShift == HShiftRow

SpecShift == InitShift /\ [][NextShift]_vars

\* the messages of one row of a shift by o: columns [o, 240) of row i into
\* window columns [0, 240-o), then columns [0, o) into [240-o, 240)
ShiftRowWire(o, i) ==
    << Cmd(<<42>>), Data(<<0, 0, 0, 240 - o - 1>>), Cmd(<<43>>), Data(<<0, i, 0, i>>), Cmd(<<44>>),
       Pix(Slice(2 * (i * 240 + o), 2 * (i * 240 + 240))),
       Cmd(<<42>>), Data(<<0, 240 - o, 0, 239>>), Cmd(<<43>>), Data(<<0, i, 0, i>>), Cmd(<<44>>),
       Pix(Slice(2 * (i * 240), 2 * (i * 240 + o))) >>

ShiftedBy(o) ==
    \A r \in DOMAIN disp : \A c \in 0..239 : disp[r][c + 1] = SourcePixel((c + o) % 240, r)

\* C9: full_image_horizontal_shift(image, offset), offset up to the width,
\* writes for each row i in order first source columns [offset, 240) into
\* window columns [0, 240-offset) and then source columns [0, offset) into
\* [240-offset, 240); when it returns, displayed pixel (c, i) is source pixel
\* ((c+offset) mod 240, i), the source itself for offset 0
C9_CircularShift ==
    (op.fn = "full_image_horizontal_shift" /\ op.offset <= 240) =>
        /\ pc \in {"hshift", "done"}
        /\ (loop.i >= 1 => wire = ShiftRowWire(op.offset, loop.i - 1))
        /\ (pc = "done" => (loop.i = 240 /\ ShiftedBy(op.offset)))
        /\ ((pc = "done" /\ op.offset = 0) => ShowsSource)

\* the same for offsets below the width
ShiftBelowWidth ==
    (op.fn = "full_image_horizontal_shift" /\ op.offset < 240) =>
        /\ pc \in {"hshift", "done"}
        /\ (loop.i >= 1 => wire = ShiftRowWire(op.offset, loop.i - 1))
        /\ (pc = "done" => (loop.i = 240 /\ ShiftedBy(op.offset)))
        /\ ((pc = "done" /\ op.offset = 0) => ShowsSource)

(***************************************************************************)
(* full_image: the whole buffer into the whole frame.  It also ends the    *)
(* reveal effects, which call it last.                                     *)
(***************************************************************************)
\* full_image leaving out the last row
full_image_short ==
    << SetW("Lcd::set_windows", 0, 0, LCD_WIDTH, LCD_HEIGHT - 1, FALSE),
       SendSlice(0, SrcLen - 2 * LCD_WIDTH) >>

full_image ==
    << SetW("Lcd::set_windows", 0, 0, LCD_WIDTH, LCD_HEIGHT, FALSE), SendSlice(0, SrcLen) >>

FullImage ==
    /\ pc = "full_image"
    /\ LcdStep(full_image, "done", loop)
    /\ UNCHANGED <<op, ret, imgs, rngVars, main>>

(***************************************************************************)
(* SpecInterlaced: full_image_interlaced of a 240x240 image, one iteration *)
(* of the closure's loop per step.                                         *)
(***************************************************************************)
\* the calls of the closure f without those of the last `for`
InterlacedCallsThreePasses ==
    [n \in 1..16 |-> <<15 - (n - 1), 0>>]
    \o << <<0, 2>> >>
    \o [n \in 1..32 |-> IF n % 2 = 1 THEN <<(n - 1) \div 2, 0>> ELSE <<15 - ((n - 1) \div 2), 2>>]
    \o << <<0, 0>> >>
    \o [n \in 1..32 |-> IF n % 2 = 1 THEN <<15 - ((n - 1) \div 2), 0>> ELSE <<(n - 1) \div 2, 2>>]
    \o << <<0, 0>> >>

\* the (ox, oy) of the calls of the closure f, in program order
InterlacedCalls ==
    [n \in 1..16 |-> <<15 - (n - 1), 0>>]
    \o << <<0, 2>> >>
    \o [n \in 1..32 |-> IF n % 2 = 1 THEN <<(n - 1) \div 2, 0>> ELSE <<15 - ((n - 1) \div 2), 2>>]
    \o << <<0, 0>> >>
    \o [n \in 1..32 |-> IF n % 2 = 1 THEN <<15 - ((n - 1) \div 2), 0>> ELSE <<(n - 1) \div 2, 2>>]
    \o << <<0, 0>> >>
    \o [n \in 1..32 |-> IF n % 2 = 1 THEN <<15 - ((n - 1) \div 2), 0>>
                                     ELSE <<15 - ((n - 1) \div 2), 2>>]

\* `for i in 0..LCD_HEIGHT / 4 - 4`
InterlacedRows == LCD_HEIGHT \div 4 - 4

\* the body of the closure's loop
full_image_interlaced_f(ox, oy, i) ==
    LET x == 0
        y == oy + i * 4
        offset == 2 * (y * LCD_WIDTH + x)
    IN << SetW("Lcd::set_windows", x + ox, y, x + LCD_WIDTH - ox, y + 1, FALSE),
          SendSlice(offset, offset + 2 * (LCD_WIDTH - ox)),
          SetW("Lcd::set_windows", x, y + 1, x + LCD_WIDTH, y + 2, FALSE),
          SendSlice(offset, offset + 2 * (LCD_WIDTH - ox)) >>

InitInterlaced ==
    /\ pc = "interlaced" /\ op = [fn |-> "full_image_interlaced"]
    /\ loop = [k |-> 1, i |-> 0] /\ ret = None /\ imgs = <<>>
    /\ RngIdle /\ LcdWatched /\ MainIdle

InterlacedStep ==
    /\ pc = "interlaced"
    /\ LET c == InterlacedCalls[loop.k]
           last_i == loop.i + 1 = InterlacedRows
       IN LcdStep(full_image_interlaced_f(c[1], c[2], loop.i),
                  IF last_i /\ loop.k = Len(InterlacedCalls) THEN "full_image" ELSE "interlaced",
                  IF last_i THEN [k |-> loop.k + 1, i |-> 0] ELSE [k |-> loop.k, i |-> loop.i + 1])
    /\ UNCHANGED <<op, ret, imgs, rngVars, main>>

NextInterlaced == InterlacedStep \/ FullImage

SpecInterlaced == InitInterlaced /\ [][NextInterlaced]_vars

PixMessages == SelectSeq(wire, LAMBDA m : m.t = "pix")

\* C5: each data stream sent after a set_windows(x0, y0, x1, y1) carries
\* exactly (x1-x0)*(y1-y0) pixels before the next set_windows
C5_WritesFillWindows ==
    pc # "panic" =>
        /\ Len(PixMessages) = Len(calls)
        /\ \A j \in 1..Len(calls) :
              PixCount(PixMessages[j].d)
                 = (calls[j].x_end - calls[j].x_start) * (calls[j].y_end - calls[j].y_start)

(***************************************************************************)
(* SpecNoisy: the three noise reveals of a 240x240 image, one tile per     *)
(* step, then the closing full_image.                                      *)
(***************************************************************************)
Noisy1Tiles == 400000
Noisy20Tiles == 10000
NoisyTiles == 20000
Noisy20Together == 20
NoisyTogether == 11
NoisyJitter == <<10, 5, 2>>

\* a tile of `together` pixels copied from (x, y) of the source to (wx, wy);
\* pre says that computing x, y, wx or wy overflowed
Tile(x, y, wx, wy, together, pre) ==
    LET offset == 2 * (y * LCD_WIDTH + x) IN
    << SetW("Lcd::set_windows", wx, wy, AddU8(wx, together).v, AddU8(wy, 1).v,
            pre \/ AddU8(wx, together).ovf \/ AddU8(wy, 1).ovf),
       SendSlice(offset, offset + 2 * together) >>

\* the generator states of n successive draws from s, the first draw's first
RECURSIVE Drawn(_, _)
DrawnNext(s1, n) == <<s1>> \o Drawn(s1, n - 1)
Drawn(s, n) == IF n = 0 THEN <<>> ELSE DrawnNext(get_u32(s), n)

\* the body of full_image_noisy1's loop, for the two states drawn
full_image_noisy1_tile(d) ==
    LET x == get_u8(d[1]) % LCD_WIDTH
        y == get_u8(d[2]) % LCD_HEIGHT
    IN Tile(x, y, x, y, 1, FALSE)

\* the body of full_image_noisy20's loop with x taken over the whole width
full_image_noisy20_tile_wide(d) ==
    LET x == get_u8(d[1]) % LCD_WIDTH
        y == get_u8(d[2]) % LCD_HEIGHT
    IN Tile(x, y, x, y, Noisy20Together, FALSE)

\* the body of full_image_noisy20's loop
full_image_noisy20_tile(d) ==
    LET x == get_u8(d[1]) % SubU8(LCD_WIDTH, Noisy20Together).v
        y == get_u8(d[2]) % LCD_HEIGHT
    IN Tile(x, y, x, y, Noisy20Together, SubU8(LCD_WIDTH, Noisy20Together).ovf)

\* the closure f(d) of full_image_noisy, for the four states drawn
full_image_noisy_f(jit, d) ==
    LET mx == SubU8(SubU8(LCD_WIDTH, NoisyTogether).v, jit)
        my == SubU8(LCD_HEIGHT, jit)
        x  == get_u8(d[1]) % mx.v
        y  == get_u8(d[2]) % my.v
        ox == get_u8(d[3]) % jit
        oy == get_u8(d[4]) % jit
    IN Tile(x, y, AddU8(x, ox).v, AddU8(y, oy).v, NoisyTogether,
            \/ SubU8(LCD_WIDTH, NoisyTogether).ovf \/ mx.ovf \/ my.ovf
            \/ AddU8(x, ox).ovf \/ AddU8(y, oy).ovf)

TileStep(script, d, next_pc, next_loop) ==
    /\ LcdStep(script, next_pc, next_loop)
    /\ rng' = d[Len(d)]
    /\ draws' = [draws EXCEPT ![1] = @ + Len(d)]
    /\ UNCHANGED <<op, ret, imgs, rng2, main>>

Noisy1Drawn(d) ==
    TileStep(full_image_noisy1_tile(d), d,
             IF loop.i + 1 < Noisy1Tiles THEN "noisy1" ELSE "full_image",
             [i |-> loop.i + 1])

NoisyTile1 == pc = "noisy1" /\ Noisy1Drawn(Drawn(rng, 2))

Noisy20Drawn(d) ==
    TileStep(full_image_noisy20_tile(d), d,
             IF loop.i + 1 < Noisy20Tiles THEN "noisy20" ELSE "full_image",
             [i |-> loop.i + 1])

NoisyTile20 == pc = "noisy20" /\ Noisy20Drawn(Drawn(rng, 2))

NoisyDrawn(d) ==
    TileStep(full_image_noisy_f(NoisyJitter[loop.p], d), d,
             IF loop.i + 1 = NoisyTiles /\ loop.p = Len(NoisyJitter) THEN "full_image" ELSE "noisy",
             IF loop.i + 1 = NoisyTiles THEN [p |-> loop.p + 1, i |-> 0]
                                       ELSE [p |-> loop.p, i |-> loop.i + 1])

NoisyTile == pc = "noisy" /\ NoisyDrawn(Drawn(rng, 4))

\* the reveals are followed from their start and, for other generator
\* states, from MaxTail tiles before the end of their loops
MaxTail == 3
SeedSamples == {U32(0, 0), U32(65535, 65535), U32(32768, 1)}

InitNoisy ==
    /\ \/ /\ rng = Random_new
          /\ \/ pc = "noisy1" /\ op = [fn |-> "full_image_noisy1"] /\ loop = [i |-> 0]
             \/ pc = "noisy20" /\ op = [fn |-> "full_image_noisy20"] /\ loop = [i |-> 0]
             \/ pc = "noisy" /\ op = [fn |-> "full_image_noisy"] /\ loop = [p |-> 1, i |-> 0]
       \/ /\ rng \in SeedSamples
          /\ \/ /\ pc = "noisy1" /\ op = [fn |-> "full_image_noisy1"]
                /\ loop = [i |-> Noisy1Tiles - MaxTail]
             \/ /\ pc = "noisy20" /\ op = [fn |-> "full_image_noisy20"]
                /\ loop = [i |-> Noisy20Tiles - MaxTail]
             \/ /\ pc = "noisy" /\ op = [fn |-> "full_image_noisy"]
                /\ loop = [p |-> Len(NoisyJitter), i |-> NoisyTiles - MaxTail]
    /\ rng2 = Random_new /\ draws = <<0, 0>>
    /\ ret = None /\ imgs = <<>>
    /\ LcdWatched /\ MainIdle

NextNoisy == NoisyTile1 \/ NoisyTile20 \/ NoisyTile \/ FullImage

SpecNoisy == InitNoisy /\ [][NextNoisy]_vars

FullBlitCall ==
    [fn |-> "Lcd::set_windows", x_start |-> 0, y_start |-> 0, x_end |-> 240, y_end |-> 240]

\* C6: each noise reveal, whatever the generator state and the display showed
\* before, returns after a last write that is the full blit of the source
\* over window (0,0,240,240), with every displayed pixel (x,y) the source
\* pixel (x,y)
C6_NoisyEndsWithBlit ==
    (op.fn \in {"full_image_noisy1", "full_image_noisy20", "full_image_noisy"}) =>
        /\ pc # "panic"
        /\ (pc = "done" =>
               /\ calls = <<FullBlitCall>>
               /\ win = [xs |-> 0, xe |-> 239, ys |-> 0, ye |-> 239]
               /\ Len(wire) = 6
               /\ wire[6] = Pix(Slice(0, 2 * 240 * 240))
               /\ ShowsSource)

C6_Witness ==
    /\ op.fn = "full_image_noisy" /\ pc = "done"
    /\ loop.p = 4 /\ draws[1] >= 4
    /\ calls = <<FullBlitCall>>
    /\ \A r \in DOMAIN disp : disp[r][1] = SourcePixel(0, r) /\ disp[r][240] = SourcePixel(239, r)
    /\ 239 \in DOMAIN disp

(***************************************************************************)
(* SpecWave: full_image_wave and full_image_wave1 of a 240x240 image, one  *)
(* row per step.                                                           *)
(***************************************************************************)
\* the row loop's body after the buffer is computed
RowWrite(fn, t, y) ==
    << SetW("Lcd::set_windows", 0, y, LCD_WIDTH, y + 1, FALSE), Send(Row(fn, t, y), FALSE) >>

\* one row of a frame-by-frame effect whose t runs over 0..=together
RowStep(label, together, y) ==
    /\ pc = label
    /\ LcdStep(RowWrite(op.fn, loop.t, y),
               IF loop.j + 1 = LCD_HEIGHT /\ loop.t = together THEN "done" ELSE label,
               IF loop.j + 1 = LCD_HEIGHT THEN [t |-> loop.t + 1, j |-> 0]
                                          ELSE [t |-> loop.t, j |-> loop.j + 1])
    /\ UNCHANGED <<op, ret, imgs, rngVars, main>>

WaveRow == RowStep("wave", WaveTogether, EvenOddRow(loop.j))

Wave1Row == RowStep("wave1", WaveTogether, loop.j)

\* the effects are followed from their start and from the start of one of
\* their last frames
LastFrames == 1

InitWave ==
    /\ \/ pc = "wave" /\ op = [fn |-> "full_image_wave"]
       \/ pc = "wave1" /\ op = [fn |-> "full_image_wave1"]
    /\ \E t0 \in {0} \cup ((WaveTogether - LastFrames + 1)..WaveTogether) : loop = [t |-> t0, j |-> 0]
    /\ ret = None /\ imgs = <<>>
    /\ RngIdle /\ LcdWatched /\ MainIdle

NextWave == WaveRow \/ Wave1Row

SpecWave == InitWave /\ [][NextWave]_vars

\* the row whose buffer the last step sent
SentRow == wire[Len(wire)].d

\* C7: in full_image_wave and full_image_wave1, at the last progress value
\* t = 150 both offsets w1 and w2 are zero for every pixel of the row being
\* sent, each pixel sent for (x, y) is the source pixel (x, y) and none is
\* the zero fill, and the rows written in that frame are all of 0..239, so
\* the frame left on the display is the plain full blit
C7_LastFrameIsBlit ==
    (op.fn \in {"full_image_wave", "full_image_wave1"}) =>
        /\ pc # "panic"
        /\ ((wire # <<>> /\ SentRow.t = 150) =>
               /\ calls = <<[fn |-> "Lcd::set_windows", x_start |-> 0, y_start |-> SentRow.y,
                             x_end |-> 240, y_end |-> SentRow.y + 1]>>
               /\ SentRow.y = (IF op.fn = "full_image_wave1"
                               THEN (IF pc = "done" THEN 239 ELSE loop.j - 1)
                               ELSE (IF pc = "done" THEN 239
                                     ELSE IF loop.j <= 120 THEN 2 * (loop.j - 1)
                                     ELSE 2 * (loop.j - 121) + 1))
               /\ \A x \in 0..239 :
                     /\ wave_w1(150, SentRow.y, x) = 0
                     /\ wave_w2(150, SentRow.y, x) = 0
                     /\ PixAt(SentRow, x) = SourcePixel(x, SentRow.y))
        /\ (pc = "done" => (loop = [t |-> 151, j |-> 0] /\ ShowsSource))

C7_Witness ==
    /\ op.fn = "full_image_wave" /\ pc = "done"
    /\ SentRow = Row("full_image_wave", 150, 239)
    /\ PixAt(SentRow, 7) = SourcePixel(7, 239)
    /\ disp[120][201] = SourcePixel(200, 120)

(***************************************************************************)
(* The generator after n draws, without taking them one by one: the n-th   *)
(* power of the map s -> s * LcgMul + LcgAdd (mod 2^32).                   *)
(***************************************************************************)
Bytes(s) == <<s.lo % 256, s.lo \div 256, s.hi % 256, s.hi \div 256>>

MulBytes(x, y) ==
    LET c0 == x[1] * y[1]
        c1 == x[1] * y[2] + x[2] * y[1] + (c0 \div 256)
        c2 == x[1] * y[3] + x[2] * y[2] + x[3] * y[1] + (c1 \div 256)
        c3 == x[1] * y[4] + x[2] * y[3] + x[3] * y[2] + x[4] * y[1] + (c2 \div 256)
    IN U32((c3 % 256) * 256 + (c2 % 256), (c1 % 256) * 256 + (c0 % 256))

Mul32(a, b) == MulBytes(Bytes(a), Bytes(b))

Add32(a, b) == U32((a.hi + b.hi + ((a.lo + b.lo) \div 65536)) % 65536, (a.lo + b.lo) % 65536)

\* the map g followed by the map f, maps being [m, c] for s -> s * m + c
Compose(f, g) == [m |-> Mul32(f.m, g.m), c |-> Add32(Mul32(f.m, g.c), f.c)]

LcgMap ==
    [m |-> U32(LcgMul \div 65536, LcgMul % 65536), c |-> U32(LcgAdd \div 65536, LcgAdd % 65536)]

RECURSIVE LcgPower(_)
\* (the test on h takes the value of h before it is used)
Doubled(h, odd) ==
    IF h.m.lo >= 0 /\ odd THEN Compose(LcgMap, Compose(h, h)) ELSE Compose(h, h)
LcgPower(n) ==
    IF n = 0 THEN [m |-> U32(0, 1), c |-> U32(0, 0)] ELSE Doubled(LcgPower(n \div 2), n % 2 = 1)

Applied(f, s) == Add32(Mul32(f.m, s), f.c)

\* the state after n calls of get_u32 from s
RngSkip(s, n) == Applied(LcgPower(n), s)

(***************************************************************************)
(* noise_rectangle and draw_iter.                                          *)
(***************************************************************************)
\* noise_rectangle: the window, then size = (x_end - x_start) * (y_end - y_start)
\* values drawn from the generator
noise_rectangle(x_start, y_start, x_end, y_end) ==
    << SetW("Lcd::set_windows", x_start, y_start, x_end, y_end, FALSE),
       SendIter(NoiseIter(SubU8(x_end, x_start).v * SubU8(y_end, y_start).v),
                SubU8(x_end, x_start).ovf \/ SubU8(y_end, y_start).ovf) >>

NoiseDrawn(script, n) ==
    /\ LcdStep(script, "done", loop)
    /\ rng' = RngSkip(rng, n)
    /\ draws' = [draws EXCEPT ![1] = @ + n]
    /\ UNCHANGED <<op, ret, imgs, rng2, main>>

NoiseRectangle ==
    /\ pc = "noise_rectangle"
    /\ NoiseDrawn(noise_rectangle(op.x_start, op.y_start, op.x_end, op.y_end),
                  SubU8(op.x_end, op.x_start).v * SubU8(op.y_end, op.y_start).v)

\* draw_iter for one pixel of the iterator: the pixel at (x, y) is drawn
\* only if both coordinates, cut to u8, are below 239
draw_iter_pixel(x, y) ==
    IF AsU8(x) < 239 /\ AsU8(y) < 239
    THEN << SetW("set_windows", AsU8(x), AsU8(y), AsU8(x) + 1, AsU8(y) + 1, FALSE),
            SendIter(Solid(1), FALSE) >>
    ELSE <<>>

\* clear(color): draw_iter over the points of the bounding box, row by row
DrawIter ==
    /\ pc = "draw_iter"
    /\ LcdStep(draw_iter_pixel(loop.p % LCD_WIDTH, loop.p \div LCD_WIDTH),
               IF loop.p + 1 < LCD_WIDTH * LCD_HEIGHT THEN "draw_iter" ELSE "done",
               [p |-> loop.p + 1])
    /\ UNCHANGED <<op, ret, imgs, rngVars, main>>

LogicRow == RowStep("logic", LogicTogether, loop.j)

LogicTriRow == RowStep("logictri", LogicTogether, loop.j)

RotRow == RowStep("rot", RotTogether, EvenOddRow(loop.j))

(***************************************************************************)
(* SpecMain: the loop of main, statement by statement, each effect running *)
(* step by step with the arguments main passes.                            *)
(***************************************************************************)
MaxPasses == 1

\* the statements of the loop body: how many times each runs (its `for`),
\* and where the callee starts
MainBody ==
    << [n |-> 1,   pc |-> "draw_iter",       loop |-> [p |-> 0]],
       [n |-> 1,   pc |-> "interlaced",      loop |-> [k |-> 1, i |-> 0]],
       [n |-> 60,  pc |-> "hshift",          loop |-> [i |-> 0]],
       [n |-> 1,   pc |-> "logic",           loop |-> [t |-> 0, j |-> 0]],
       [n |-> 120, pc |-> "noise_rectangle", loop |-> <<>>],
       [n |-> 1,   pc |-> "logictri",        loop |-> [t |-> 0, j |-> 0]],
       [n |-> 1,   pc |-> "wave",            loop |-> [t |-> 0, j |-> 0]],
       [n |-> 1,   pc |-> "full_image",      loop |-> <<>>],
       [n |-> 1,   pc |-> "noisy1",          loop |-> [i |-> 0]],
       [n |-> 1,   pc |-> "full_image",      loop |-> <<>>],
       [n |-> 1,   pc |-> "wave",            loop |-> [t |-> 0, j |-> 0]],
       [n |-> 1,   pc |-> "full_image",      loop |-> <<>>],
       [n |-> 1,   pc |-> "noisy20",         loop |-> [i |-> 0]],
       [n |-> 1,   pc |-> "full_image",      loop |-> <<>>],
       [n |-> 1,   pc |-> "rot",             loop |-> [t |-> 0, j |-> 0]] >>

\* the call statement stmt makes on iteration i of its `for`
MainCall(stmt, i) ==
    CASE stmt = 1  -> [fn |-> "clear"]
      [] stmt = 2  -> [fn |-> "full_image_interlaced"]
      [] stmt = 3  -> [fn |-> "full_image_horizontal_shift", offset |-> SubU8(240, MulU8(i, 4).v).v]
      [] stmt = 4  -> [fn |-> "full_image_logic"]
      [] stmt = 5  -> [fn |-> "noise_rectangle",
                       x_start |-> SubU8(120, i).v, y_start |-> SubU8(120, i).v,
                       x_end |-> AddU8(120, i).v, y_end |-> AddU8(120, i).v]
      [] stmt = 6  -> [fn |-> "full_image_logictri"]
      [] stmt \in {7, 11} -> [fn |-> "full_image_wave"]
      [] stmt \in {8, 10, 12, 14} -> [fn |-> "full_image"]
      [] stmt = 9  -> [fn |-> "full_image_noisy1"]
      [] stmt = 13 -> [fn |-> "full_image_noisy20"]
      [] stmt = 15 -> [fn |-> "full_image_rot"]

\* the statement after (stmt, i): the next iteration of its `for`, the next
\* statement, or the first statement of the next pass
MainAfter(m) ==
    IF m.stmt # 0 /\ m.i + 1 < MainBody[m.stmt].n THEN [m EXCEPT !.i = m.i + 1]
    ELSE IF m.stmt = Len(MainBody) THEN [stmt |-> 1, i |-> 0, passes |-> m.passes + 1]
    ELSE [stmt |-> m.stmt + 1, i |-> 0, passes |-> m.passes]

InitMain ==
    /\ pc = "idle" /\ op = None /\ loop = <<>> /\ ret = None /\ imgs = <<>>
    /\ RngIdle /\ LcdIdle /\ MainIdle

\* main goes on to its next statement once the last call returned
Main ==
    /\ pc \in {"idle", "done"}
    /\ MainAfter(main).passes < MaxPasses
    /\ main' = MainAfter(main)
    /\ pc' = MainBody[main'.stmt].pc
    /\ loop' = MainBody[main'.stmt].loop
    /\ op' = MainCall(main'.stmt, main'.i)
    /\ UNCHANGED <<ret, imgs, rngVars, lcdVars>>

NextMain ==
    \/ Main \/ DrawIter \/ InterlacedStep \/ FullImage \/ HShiftRow \/ LogicRow
    \/ NoiseRectangle \/ LogicTriRow \/ WaveRow \/ NoisyTile1 \/ NoisyTile20 \/ RotRow

SpecMain == InitMain /\ [][NextMain]_vars

\* C4: every set_windows call issued while the program runs has
\* 0 <= x0 < x1 <= 240 and 0 <= y0 < y1 <= 240, none passes x1 = 0 or y1 = 0,
\* and the x1-1 / y1-1 computation never underflows
C4_WindowsValid ==
    /\ pc # "panic"
    /\ \A j \in 1..Len(calls) : ValidWindow(calls[j])

(***************************************************************************)
(* SpecGradient: MyImage::gradient on an image whose pixels all hold the   *)
(* same two bytes, between two endpoints inside the image.                 *)
(***************************************************************************)
MaxGrad == 2

\* the image with every pixel written to the bytes c through set_pixel_b
Uniform(img, c) ==
    [img EXCEPT !.wr = [k \in 0..(BufferLen(img) - 1) |-> c[(k % 2) + 1]]]

\* MyImage::get_pixel_buff: &self.buffer()[offset..], a slice that exists
\* when offset is not past the end of buffer(); len is the slice's length
get_pixel_buff(img, x, y) ==
    LET offset == 2 * (x + y * img.w)
    IN [panic |-> ~BufferOk(img) \/ offset > BufferLen(img),
        len |-> BufferLen(img) - offset,
        c |-> <<ByteAt(img, offset), ByteAt(img, offset + 1)>>]

\* iteration i of `for i in 0..count` of gradient: the two i16 products,
\* the truncating divisions, the `as u8` casts, the source slice and the
\* two indexed reads c[0], c[1] of set_pixel_b
GradientStep(self, r, a, i) ==
    LET px == MulI16(a.x1 - a.x0, i)
        py == MulI16(a.y1 - a.y0, i)
        x  == a.x0 + TruncDiv(px.v, a.count)
        y  == a.y0 + TruncDiv(py.v, a.count)
        c  == get_pixel_buff(self, AsU8(x), AsU8(y))
        w  == set_pixel_b(r.img, i, 0, c.c)
    IN IF r.panic THEN r
       ELSE IF c.panic \/ c.len < 2 \/ w.panic
            THEN [img |-> r.img, panic |-> TRUE, ovf |-> r.ovf \/ px.ovf \/ py.ovf]
            ELSE [img |-> w.img, panic |-> FALSE, ovf |-> r.ovf \/ px.ovf \/ py.ovf]

\* iterations lo .. hi-1 of the loop, in order
RECURSIVE GradientLoop(_, _, _, _, _)
GradientLoop(self, r, a, lo, hi) ==
    IF hi <= lo THEN r
    ELSE IF hi = lo + 1 THEN GradientStep(self, r, a, lo)
    ELSE LET first == GradientLoop(self, r, a, lo, (lo + hi) \div 2)
         IN IF first.panic THEN first
            ELSE GradientLoop(self, first, a, (lo + hi) \div 2, hi)

\* MyImage::gradient(x0, y0, x1, y1, count): ovf when an i16 product left
\* the i16 range (the run stops there when overflow is checked; img and
\* panic are the outcome with wrapped products)
gradient(self, a) ==
    LET n == ImageBuffer512_new(a.count, 1)
    IN GradientLoop(self, [img |-> n.img, panic |-> FALSE, ovf |-> n.ovf],
                    a, 0, a.count)

GradDims == {<<1, 1>>, <<4, 4>>, <<3, 2>>, <<16, 8>>, <<255, 1>>}
GradPixels == {<<52, 18>>, <<0, 0>>, <<255, 1>>}
GradCounts == (1..MaxGrad) \cup {4, 129, 131, 255}

\* endpoints tried along an axis of length n
GradCoords(n) == {0, n \div 2, n - 1}

InitGradient ==
    /\ pc = "idle" /\ op = None /\ loop = <<>> /\ ret = None
    /\ RngIdle /\ LcdIdle /\ MainIdle
    /\ \E d \in GradDims, c \in GradPixels :
          imgs = <<Uniform(ImageBuffer512_new(d[1], d[2]).img, c)>>

Gradient ==
    /\ pc = "idle" /\ Len(imgs) = 1
    /\ \E x0 \in GradCoords(imgs[1].w), x1 \in GradCoords(imgs[1].w),
          y0 \in GradCoords(imgs[1].h), y1 \in GradCoords(imgs[1].h),
          count \in GradCounts :
          LET a == [fn |-> "gradient", x0 |-> x0, y0 |-> y0,
                    x1 |-> x1, y1 |-> y1, count |-> count]
              r == gradient(imgs[1], a)
          IN \/ (r.ovf \/ r.panic) /\ Panic(a)
             \/ /\ ~r.panic
                /\ op' = a
                /\ imgs' = Append(imgs, r.img)
                /\ UNCHANGED <<pc, loop, ret, rngVars, lcdVars, main>>

NextGradient == Gradient

SpecGradient == InitGradient /\ [][NextGradient]_vars

\* C11: on an image whose pixels all hold v, gradient(x0, y0, x1, y1, N)
\* with both endpoints inside the image and N in 1..=255 completes and
\* returns a 1-row image of width N whose every pixel is v
C11_GradientUniform ==
    op.fn = "gradient" =>
        /\ pc = "idle" /\ Len(imgs) = 2
        /\ imgs[2].w = op.count /\ imgs[2].h = 1
        /\ \A j \in 0..(op.count - 1) : PixelBytes(imgs[2], j) = PixelBytes(imgs[1], 0)

\* the concrete case of C11: gradient(0, 0, 3, 3, 4) on a 4x4 image of
\* 0x1234 returns four pixels 0x1234
GradientFourByFour ==
    (/\ op.fn = "gradient" /\ imgs[1].w = 4 /\ imgs[1].h = 4
     /\ op.x0 = 0 /\ op.y0 = 0 /\ op.x1 = 3 /\ op.y1 = 3 /\ op.count = 4
     /\ PixelBytes(imgs[1], 0) = <<52, 18>>) =>
        /\ pc = "idle" /\ Len(imgs) = 2
        /\ imgs[2].w = 4 /\ imgs[2].h = 1
        /\ \A j \in 0..3 : PixelBytes(imgs[2], j) = <<52, 18>>


(***************************************************************************)
(* SpecFault: the drawing operations over a transport whose writes can     *)
(* return Err.  Every send_commands / send_data of the operations is       *)
(* followed by .unwrap(), and the panic handler is panic_halt.             *)
(***************************************************************************)
\* Lcd::raw_rectangle: the window, then size = (x_end - x_start) *
\* (y_end - y_start) copies of the colour
raw_rectangle(x_start, y_start, x_end, y_end) ==
    << SetW("Lcd::set_windows", x_start, y_start, x_end, y_end, FALSE),
       SendIter(Solid(SubU8(x_end, x_start).v * SubU8(y_end, y_start).v),
                SubU8(x_end, x_start).ovf \/ SubU8(y_end, y_start).ovf) >>

\* Lcd::show_image(x, y, img) of a 240x240 image
show_image(x, y) ==
    << SetW("Lcd::set_windows", x, y, AddU8(x, LCD_WIDTH).v, AddU8(y, LCD_HEIGHT).v,
            AddU8(x, LCD_WIDTH).ovf \/ AddU8(y, LCD_HEIGHT).ovf),
       SendSlice(0, SrcLen) >>

\* .unwrap() as it would be if it dropped the Err of write n and went on:
\* the writes after it are issued
unwrap_ignored(st, nx, n) ==
    [nx EXCEPT !.wire = SubSeq(nx.wire, 1, n - 1) \o SubSeq(nx.wire, n + 1, Len(nx.wire))]

\* .unwrap() on the Err of write n of the step, a write of the script
\* element that takes st to nx: the writes before it went out, and the
\* operation panics
unwrap(st, nx, n) ==
    [calls |-> nx.calls,
     wire  |-> SubSeq(nx.wire, 1, n - 1),
     win   |-> DeviceWindow(st.win, SubSeq(nx.wire, Len(st.wire) + 1, n - 1)),
     disp  |-> st.disp,
     panic |-> TRUE]

\* the script when write n returns Err
RECURSIVE FaultRun(_, _, _, _, _)
FaultRun(script, k, checked, st, n) ==
    IF k > Len(script) \/ st.panic THEN st
    ELSE LET nx == Exec(script[k], checked, st)
         IN IF Len(nx.wire) >= n THEN unwrap(st, nx, n)
            ELSE FaultRun(script, k + 1, checked, nx, n)

\* a step of an operation: every write returns Ok, or write n returns Err
Transport(script, next_pc, next_loop) ==
    \/ LcdStep(script, next_pc, next_loop) /\ UNCHANGED ret
    \/ \E checked \in (IF Overflows(script) THEN BOOLEAN ELSE {FALSE}) :
          LET st0 == [calls |-> <<>>, wire |-> <<>>, win |-> win, disp |-> disp,
                      panic |-> FALSE]
          IN \E n \in 1..Len(Run(script, 1, checked, st0).wire) :
                /\ Stepped(FaultRun(script, 1, checked, st0, n), pc, loop)
                /\ ret' = [fn |-> "write failed", write |-> n]

MaxFault == 1

FaultCoords == (0..MaxFault) \cup {120, LCD_WIDTH}

InitFault ==
    /\ \/ pc = "idle" /\ op = None /\ loop = <<>>
       \/ /\ pc = "wave" /\ op = [fn |-> "full_image_wave"]
          /\ \E t0 \in (WaveTogether - LastFrames + 1)..WaveTogether : loop = [t |-> t0, j |-> 0]
    /\ ret = None /\ imgs = <<>>
    /\ RngIdle /\ LcdIdle /\ MainIdle

SetWindowsCall ==
    /\ pc = "idle"
    /\ \E x0 \in FaultCoords, y0 \in FaultCoords, x1 \in FaultCoords, y1 \in FaultCoords :
          /\ op' = [fn |-> "Lcd::set_windows", x_start |-> x0, y_start |-> y0,
                    x_end |-> x1, y_end |-> y1]
          /\ Transport(<<SetW("Lcd::set_windows", x0, y0, x1, y1, FALSE)>>, "done", loop)
    /\ UNCHANGED <<imgs, rngVars, main>>

RawRectangle ==
    /\ pc = "idle"
    /\ \E x0 \in FaultCoords, y0 \in FaultCoords, x1 \in FaultCoords, y1 \in FaultCoords :
          /\ op' = [fn |-> "raw_rectangle", x_start |-> x0, y_start |-> y0,
                    x_end |-> x1, y_end |-> y1]
          /\ Transport(raw_rectangle(x0, y0, x1, y1), "done", loop)
    /\ UNCHANGED <<imgs, rngVars, main>>

ShowImage ==
    /\ pc = "idle"
    /\ \E x \in FaultCoords, y \in FaultCoords :
          /\ op' = [fn |-> "show_image", x |-> x, y |-> y]
          /\ Transport(show_image(x, y), "done", loop)
    /\ UNCHANGED <<imgs, rngVars, main>>

WaveRowWrite ==
    /\ pc = "wave"
    /\ Transport(RowWrite(op.fn, loop.t, EvenOddRow(loop.j)),
                 IF loop.j + 1 = LCD_HEIGHT /\ loop.t = WaveTogether THEN "done" ELSE "wave",
                 IF loop.j + 1 = LCD_HEIGHT THEN [t |-> loop.t + 1, j |-> 0]
                                            ELSE [t |-> loop.t, j |-> loop.j + 1])
    /\ UNCHANGED <<op, imgs, rngVars, main>>

NextFault == SetWindowsCall \/ RawRectangle \/ ShowImage \/ WaveRowWrite

SpecFault == InitFault /\ [][NextFault]_vars

\* C12: when a transport write fails inside a drawing operation or effect,
\* the operation stops at that write: the writes before it went out, it
\* issues no command or data write after it and does not retry it, and the
\* failure is not passed over by the loop it happens in
C12_WriteFailureStops ==
    ret.fn = "write failed" =>
        /\ pc = "panic"
        /\ Len(wire) = ret.write - 1
        /\ \A k \in 1..Len(wire) :
              wire[k] = (IF k \in {1, 3, 5} THEN Cmd(<<ColumnAddressSet + (k \div 2)>>)
                         ELSE IF k = 2 THEN Data(<<0, calls[1].x_start, 0, (calls[1].x_end - 1) % 256>>)
                         ELSE Data(<<0, calls[1].y_start, 0, (calls[1].y_end - 1) % 256>>))

C12_Witness ==
    /\ ret = [fn |-> "write failed", write |-> 6]
    /\ op.fn = "full_image_wave" /\ loop = [t |-> 150, j |-> 7]
    /\ pc = "panic"
    /\ Len(wire) = 5


(***************************************************************************)
(* SpecAsset: a LoadedImage, the bytes of an asset file: width, height,    *)
(* then two bytes per pixel.  imgs[1] is the blob self.0.                  *)
(***************************************************************************)
MaxAsset == 2

\* an asset of w x h pixels whose bytes follow pattern p
AssetBlob(w, h, p) == <<w, h>> \o [k \in 1..(2 * w * h) |-> PatByte(p, k)]

\* self.0[k], a panic past the end of the blob
LoadedImage_index(blob, k) ==
    IF k < Len(blob) THEN [panic |-> FALSE, v |-> blob[k + 1]] ELSE [panic |-> TRUE, v |-> 0]

LoadedImage_width(blob) == LoadedImage_index(blob, 0)

LoadedImage_height(blob) == LoadedImage_index(blob, 1)

\* &self.0[2..]
LoadedImage_buffer(blob) ==
    IF 2 <= Len(blob) THEN [panic |-> FALSE, v |-> SubSeq(blob, 3, Len(blob))]
    ELSE [panic |-> TRUE, v |-> <<>>]

\* buffer_mut as it would be if it handed out the pixel bytes
LoadedImage_buffer_mut_slice(blob) == [panic |-> FALSE, v |-> LoadedImage_buffer(blob).v]

\* LoadedImage::buffer_mut: panic!("No mutation for loaded image")
LoadedImage_buffer_mut(blob) == [panic |-> TRUE, v |-> <<>>]

\* MyImage::get_pixel_u16 on a LoadedImage
LoadedImage_get_pixel_u16(blob, x, y) ==
    LET w == LoadedImage_width(blob)
        b == LoadedImage_buffer(blob)
        offset == 2 * (x + y * w.v)
    IN IF w.panic \/ b.panic \/ offset + 1 >= Len(b.v) THEN [panic |-> TRUE, v |-> 0]
       ELSE [panic |-> FALSE, v |-> b.v[offset + 1] + b.v[offset + 2] * 256]

\* MyImage::set_pixel_b on a LoadedImage: the offset, buffer_mut(), then the
\* two indexed assignments; blob is self.0 afterwards
LoadedImage_set_pixel_b(blob, x, y, c) ==
    LET w == LoadedImage_width(blob)
        b == LoadedImage_buffer_mut(blob)
        offset == 2 * (x + y * w.v)
    IN IF w.panic \/ b.panic \/ offset + 1 >= Len(b.v) THEN [panic |-> TRUE, blob |-> blob]
       ELSE [panic |-> FALSE,
             blob |-> [blob EXCEPT ![offset + 3] = c[1], ![offset + 4] = c[2]]]

\* MyImage::get_pixel_buff_mut on a LoadedImage: the offset, then
\* &mut self.buffer_mut()[offset..]
LoadedImage_get_pixel_buff_mut(blob, x, y) ==
    LET w == LoadedImage_width(blob)
        b == LoadedImage_buffer_mut(blob)
        offset == 2 * (x + y * w.v)
    IN [panic |-> w.panic \/ b.panic \/ offset > Len(b.v)]

AssetCoords == 0..(MaxAsset + 1)

InitAsset ==
    /\ pc = "idle" /\ op = None /\ loop = <<>> /\ ret = None
    /\ RngIdle /\ LcdIdle /\ MainIdle
    /\ \E w \in 1..MaxAsset, h \in 1..MaxAsset, p \in 1..MaxPat : imgs = <<AssetBlob(w, h, p)>>

\* a call on the image: it returns v, or panics
AssetCall(call, r, blob) ==
    /\ pc = "idle"
    /\ op' = call
    /\ pc' = IF r.panic THEN "panic" ELSE "idle"
    /\ ret' = IF r.panic THEN ret ELSE [fn |-> "returned", v |-> r.v]
    /\ imgs' = <<blob>>
    /\ UNCHANGED <<loop, rngVars, lcdVars, main>>

Width == AssetCall([fn |-> "width"], LoadedImage_width(imgs[1]), imgs[1])

Height == AssetCall([fn |-> "height"], LoadedImage_height(imgs[1]), imgs[1])

BufferRead == AssetCall([fn |-> "buffer"], LoadedImage_buffer(imgs[1]), imgs[1])

GetPixelU16 ==
    \E x \in AssetCoords, y \in AssetCoords :
        AssetCall([fn |-> "get_pixel_u16", x |-> x, y |-> y],
                  LoadedImage_get_pixel_u16(imgs[1], x, y), imgs[1])

BufferMut ==
    AssetCall([fn |-> "buffer_mut"],
              [panic |-> LoadedImage_buffer_mut(imgs[1]).panic, v |-> <<>>], imgs[1])

GetPixelBuffMut ==
    \E x \in AssetCoords, y \in AssetCoords :
        AssetCall([fn |-> "get_pixel_buff_mut", x |-> x, y |-> y],
                  [panic |-> LoadedImage_get_pixel_buff_mut(imgs[1], x, y).panic, v |-> <<>>],
                  imgs[1])

SetPixelB ==
    \E x \in AssetCoords, y \in AssetCoords, c \in {<<0, 0>>, <<255, 170>>} :
        LET r == LoadedImage_set_pixel_b(imgs[1], x, y, c)
        IN AssetCall([fn |-> "set_pixel_b", x |-> x, y |-> y, c |-> c],
                     [panic |-> r.panic, v |-> <<>>], r.blob)

NextAsset ==
    Width \/ Height \/ BufferRead \/ GetPixelU16 \/ BufferMut \/ GetPixelBuffMut \/ SetPixelB

SpecAsset == InitAsset /\ [][NextAsset]_vars

\* C13: on a LoadedImage every mutating access (buffer_mut,
\* get_pixel_buff_mut, set_pixel_b) ends in the panic and never returns,
\* the blob with its width and height stays as it was, and the read
\* accessors width, height, buffer and get_pixel_u16 return for in-range
\* coordinates
C13_AssetReadOnly ==
    [][/\ imgs' = imgs
       /\ op'.fn \in {"buffer_mut", "get_pixel_buff_mut", "set_pixel_b"} => pc' = "panic"
       /\ (\/ op'.fn \in {"width", "height", "buffer"}
           \/ op'.fn = "get_pixel_u16" /\ op'.x < imgs[1][1] /\ op'.y < imgs[1][2])
          => (pc' = "idle" /\ ret'.fn = "returned")]_vars

C13_Witness ==
    /\ op = [fn |-> "set_pixel_b", x |-> 1, y |-> 1, c |-> <<255, 170>>]
    /\ pc = "panic"
    /\ imgs = <<AssetBlob(2, 2, 1)>>
    /\ LoadedImage_get_pixel_u16(imgs[1], 1, 1).v = 8 + 256 * 9


(***************************************************************************)
(* SpecWaveFn: calls of the free function wave with arguments over the     *)
(* whole i32 range.  The i32 operations give the wrapped result and say    *)
(* whether the exact result left the i32 range.                            *)
(***************************************************************************)
MaxI32 == 32767 * 65536 + 65535
MinI32 == (0 - MaxI32) - 1

\* i32 `-`
SubI32(a, b) ==
    IF b >= 0
    THEN IF a < MinI32 + b
         THEN [v |-> (((a - MinI32) - b) + MaxI32) + 1, ovf |-> TRUE]
         ELSE [v |-> a - b, ovf |-> FALSE]
    ELSE IF a > MaxI32 + b
         THEN [v |-> (((a - MaxI32) - (b + 1)) - MaxI32) - 1, ovf |-> TRUE]
         ELSE [v |-> a - b, ovf |-> FALSE]

\* the two's complement bits of an i32, and back
ToU32(a) ==
    IF a >= 0 THEN U32(a \div 65536, a % 65536)
    ELSE U32(((a - MinI32) \div 65536) + 32768, (a - MinI32) % 65536)

FromU32(u) ==
    IF u.hi < 32768 THEN u.hi * 65536 + u.lo
    ELSE ((u.hi - 32768) * 65536 + u.lo) + MinI32

\* |a| for a # MinI32
AbsI32(a) == IF a < 0 THEN 0 - a ELSE a

\* i32 `*`
MulI32(a, b) ==
    [v |-> FromU32(Mul32(ToU32(a), ToU32(b))),
     ovf |-> IF a = 0 \/ b = 0 THEN FALSE
             ELSE IF a = MinI32 THEN b # 1
             ELSE IF b = MinI32 THEN a # 1
             ELSE IF (a < 0) = (b < 0) THEN AbsI32(a) > MaxI32 \div AbsI32(b)
             ELSE /\ AbsI32(a) > MaxI32 \div AbsI32(b)
                  /\ ~(/\ AbsI32(a) = (MaxI32 \div AbsI32(b)) + 1
                       /\ MaxI32 % AbsI32(b) = AbsI32(b) - 1)]

\* i32 `/` and `%` by n > 0, for every dividend of the i32 range
DivI32(a, n) ==
    IF a >= 0 THEN a \div n
    ELSE 0 - (((0 - (a + 1)) \div n) + (IF (0 - (a + 1)) % n = n - 1 THEN 1 ELSE 0))

RemI32(a, n) == IF a >= 0 THEN a % n ELSE 0 - ((((0 - (a + 1)) % n) + 1) % n)

\* fn wave for 1 <= period < 2^30: v is the value returned when overflow
\* wraps, ovf says that some operation overflowed (a panic when overflow
\* is checked)
wave_i32(x, period, amplitude) ==
    LET s0   == SubI32(period, x)
        x1   == RemI32(IF x > 0 THEN x ELSE s0.v, 2 * period)
        x2   == IF x1 < period THEN x1 ELSE x1 - period
        sign == IF x1 < period THEN 1 ELSE 0 - 1
        m1   == MulI32(sign, x2)
        s1   == SubI32(period, x2)
        m2   == MulI32(m1.v, s1.v)
        m3   == MulI32(m2.v, amplitude)
    IN [v |-> DivI32(DivI32(DivI32(m3.v, period), period), 4),
        ovf |-> (x <= 0 /\ s0.ovf) \/ m1.ovf \/ s1.ovf \/ m2.ovf \/ m3.ovf]

MaxWaveX == 6
MaxPeriod == 3

WaveXs == ((0 - MaxWaveX)..MaxWaveX) \cup {MinI32, MinI32 + 1, MinI32 + 2, 0 - 61, 0 - 60, 59, 95}
WavePeriods == (1..MaxPeriod) \cup {30, 95}
WaveAmplitudes == {0 - 300, 0 - 1, 0, 1, 4, 150}

InitWaveFn ==
    /\ pc = "idle" /\ op = None /\ loop = <<>> /\ ret = None /\ imgs = <<>>
    /\ RngIdle /\ LcdIdle /\ MainIdle

\* one call wave(x, period, amplitude): it returns, or it panics on an
\* overflow when overflow is checked
WaveCall ==
    /\ pc = "idle"
    /\ \E x \in WaveXs, period \in WavePeriods, amplitude \in WaveAmplitudes :
          LET r == wave_i32(x, period, amplitude)
          IN /\ op' = [fn |-> "wave", x |-> x, period |-> period, amplitude |-> amplitude]
             /\ \/ r.ovf /\ pc' = "panic" /\ UNCHANGED ret
                \/ pc' = "idle" /\ ret' = [fn |-> "returned", v |-> r.v]
    /\ UNCHANGED <<loop, imgs, rngVars, lcdVars, main>>

NextWaveFn == WaveCall

SpecWaveFn == InitWaveFn /\ [][NextWaveFn]_vars

\* C14: wave(x + 2*period, period, amplitude) == wave(x, period, amplitude)
\* for every x (positive, zero and negative), every period >= 1 and every
\* amplitude: the call with x has the outcome of the call with x + 2*period
C14_WavePeriodic ==
    op.fn = "wave" =>
        /\ pc = "panic" => wave_i32(op.x + 2 * op.period, op.period, op.amplitude).ovf
        /\ pc # "panic" =>
              ret.v = wave_i32(op.x + 2 * op.period, op.period, op.amplitude).v

\* where no operation of wave overflows, the period holds, and the plain
\* integer form of wave used for the effects gives the same value
WavePeriodicInRange ==
    (op.fn = "wave" /\ ~wave_i32(op.x, op.period, op.amplitude).ovf) =>
        /\ pc = "idle"
        /\ ret.v = wave_i32(op.x + 2 * op.period, op.period, op.amplitude).v
        /\ ret.v = wave(op.x, op.period, op.amplitude)
        /\ ~wave_i32(op.x + 2 * op.period, op.period, op.amplitude).ovf


(***************************************************************************)
(* SpecReveal: full_image_logic, full_image_logictri and full_image_tri of *)
(* a 240x240 image, one row per step.                                      *)
(***************************************************************************)
\* one row of full_image_tri: frame t sends the rows 0 .. LCD_HEIGHT - tt - 1
TriRow ==
    /\ pc = "tri"
    /\ LcdStep(RowWrite(op.fn, loop.t, loop.j),
               IF loop.j + 1 = LCD_HEIGHT - (TriTogether - loop.t) /\ loop.t = TriTogether
               THEN "done" ELSE "tri",
               IF loop.j + 1 = LCD_HEIGHT - (TriTogether - loop.t)
               THEN [t |-> loop.t + 1, j |-> 0]
               ELSE [t |-> loop.t, j |-> loop.j + 1])
    /\ UNCHANGED <<op, ret, imgs, rngVars, main>>

\* the last value of t of an effect
Together(fn) ==
    CASE fn = "full_image_tri" -> TriTogether
      [] fn = "full_image_rot" -> RotTogether
      [] fn \in {"full_image_logic", "full_image_logictri"} -> LogicTogether
      [] OTHER -> WaveTogether

InitReveal ==
    /\ \/ pc = "logic" /\ op = [fn |-> "full_image_logic"]
       \/ pc = "logictri" /\ op = [fn |-> "full_image_logictri"]
       \/ pc = "tri" /\ op = [fn |-> "full_image_tri"]
    /\ \E back \in {Together(op.fn)} \cup (0..(LastFrames - 1)) :
          loop = [t |-> Together(op.fn) - back, j |-> 0]
    /\ ret = None /\ imgs = <<>>
    /\ RngIdle /\ LcdWatched /\ MainIdle

NextReveal == LogicRow \/ LogicTriRow \/ TriRow

SpecReveal == InitReveal /\ [][NextReveal]_vars

\* C15: in full_image_logic, full_image_logictri and full_image_tri, in the
\* frame with tt = 0 every row 0..239 is written, and every pixel streamed
\* for (x, y) is the source pixel (x, y): no fill value and no value left
\* over in the row buffer
C15_LastFrameIsSource ==
    (op.fn \in {"full_image_logic", "full_image_logictri", "full_image_tri"}) =>
        /\ pc # "panic"
        /\ ((wire # <<>> /\ SentRow.t = Together(op.fn)) =>
               /\ calls = <<[fn |-> "Lcd::set_windows", x_start |-> 0, y_start |-> SentRow.y,
                             x_end |-> 240, y_end |-> SentRow.y + 1]>>
               /\ SentRow.y = (IF pc = "done" THEN 239 ELSE loop.j - 1)
               /\ \A x \in 0..239 :
                     /\ RowPixel(op.fn, SentRow.t, SentRow.y, x) = get_pixel_u16(x, SentRow.y)
                     /\ PixAt(SentRow, x) = SourcePixel(x, SentRow.y))
        /\ (pc = "done" => (loop = [t |-> Together(op.fn) + 1, j |-> 0] /\ ShowsSource))

C15_Witness ==
    /\ op.fn = "full_image_tri" /\ pc = "done"
    /\ SentRow = Row("full_image_tri", 30, 239)
    /\ PixAt(SentRow, 239) = SourcePixel(239, 239)
    /\ disp[239][240] = SourcePixel(239, 239)


(***************************************************************************)
(* SpecRot: full_image_rot of a 240x240 image, one row per step.           *)
(***************************************************************************)
InitRot ==
    /\ pc = "rot" /\ op = [fn |-> "full_image_rot"]
    /\ \E t0 \in {0} \cup ((RotTogether - LastFrames + 1)..RotTogether) : loop = [t |-> t0, j |-> 0]
    /\ ret = None /\ imgs = <<>>
    /\ RngIdle /\ LcdWatched /\ MainIdle

NextRot == RotRow

SpecRot == InitRot /\ [][NextRot]_vars

\* C16: in full_image_rot the pixel streamed for (x, y) at scale
\* s = together - t is the source pixel at (x + dy*s/50, y - dx*s/50) with
\* dx = 120 - x, dy = 120 - y, a displacement that is zero at s = 0; the
\* last frame writes every row 0..239 with the source pixels and no
\* synthetic fill
C16_RotEndsAtSource ==
    (op.fn = "full_image_rot") =>
        /\ pc # "panic"
        /\ wire # <<>> =>
              \A x \in {0, 1, 119, 120, 121, 239} :
                 LET s  == 200 - SentRow.t
                     xx == x + TruncDiv((120 - SentRow.y) * s, 50)
                     yy == SentRow.y - TruncDiv((120 - x) * s, 50)
                 IN InFrame(xx, yy) => PixAt(SentRow, x) = SourcePixel(xx, yy)
        /\ ((wire # <<>> /\ SentRow.t = 200) =>
               /\ calls = <<[fn |-> "Lcd::set_windows", x_start |-> 0, y_start |-> SentRow.y,
                             x_end |-> 240, y_end |-> SentRow.y + 1]>>
               /\ SentRow.y = (IF pc = "done" THEN 239
                               ELSE IF loop.j <= 120 THEN 2 * (loop.j - 1)
                               ELSE 2 * (loop.j - 121) + 1)
               /\ \A x \in 0..239 : PixAt(SentRow, x) = SourcePixel(x, SentRow.y))
        /\ (pc = "done" => (loop = [t |-> 201, j |-> 0] /\ ShowsSource))

C16_Witness ==
    /\ op.fn = "full_image_rot" /\ pc = "done"
    /\ SentRow = Row("full_image_rot", 200, 239)
    /\ PixAt(SentRow, 0) = SourcePixel(0, 239)
    /\ disp[0][240] = SourcePixel(239, 0)


\* C17: full_image_interlaced, whatever the display showed before, makes
\* all the calls of its four passes and then ends with the full blit over
\* (0, 0, 240, 240), so that on return every displayed pixel is the source
\* pixel, also in the rows and columns the partial writes never touched
C17_InterlacedEndsWithBlit ==
    (op.fn = "full_image_interlaced") =>
        /\ pc # "panic"
        /\ pc \in {"full_image", "done"} => loop = [k |-> 116, i |-> 0]
        /\ pc = "done" =>
              /\ calls = <<FullBlitCall>>
              /\ wire[Len(wire)] = Pix(Slice(0, SrcLen))
              /\ ShowsSource

C17_Witness ==
    /\ op.fn = "full_image_interlaced" /\ pc = "done"
    /\ loop.k = 116
    /\ disp[239] = [c1 \in 1..LCD_WIDTH |-> SourcePixel(c1 - 1, 239)]
    /\ disp[0][1] = SourcePixel(0, 0)


\* C18: in full_image_logictri, for every tt and every (x, y), the pixel
\* streamed is the AND of the samples at (x - tt, y), (x + tt, y) and
\* (x, y - tt), a sample outside the image counting as the fill 0; a pixel
\* whose three sample positions are inside the image is streamed as the AND
\* of the three source pixels, never as the fill
C18_LogicTriAndOfThree ==
    (op.fn = "full_image_logictri" /\ wire # <<>>) =>
        \A x \in 0..239 :
           LET tt == 50 - SentRow.t
               y  == SentRow.y
           IN RowPixel(op.fn, SentRow.t, y, x)
                 = (IF InFrame(x - tt, y) /\ InFrame(x + tt, y) /\ InFrame(x, y - tt)
                    THEN BitAnd({get_pixel_u16(x - tt, y), get_pixel_u16(x + tt, y),
                                 get_pixel_u16(x, y - tt)})
                    ELSE U16Of(FillZero))

\* the rows of full_image_logictri whose row y + tt is inside the image
\* are streamed as C18 says
LogicTriAboveMargin ==
    (op.fn = "full_image_logictri" /\ wire # <<>> /\ SentRow.y + (50 - SentRow.t) < 240) =>
        \A x \in 0..239 :
           LET tt == 50 - SentRow.t
               y  == SentRow.y
           IN RowPixel(op.fn, SentRow.t, y, x)
                 = (IF InFrame(x - tt, y) /\ InFrame(x + tt, y) /\ InFrame(x, y - tt)
                    THEN BitAnd({get_pixel_u16(x - tt, y), get_pixel_u16(x + tt, y),
                                 get_pixel_u16(x, y - tt)})
                    ELSE U16Of(FillZero))


\* C19: draw_iter writes each pixel with 0 <= x < 240 and 0 <= y < 240 to
\* exactly that cell, through a 1x1 window followed by the colour, so that
\* clearing sets all 240x240 cells (pixels off the surface write nothing)
C19_DrawIterCells ==
    (op.fn = "clear" /\ pc \in {"draw_iter", "done"} /\ loop.p >= 1) =>
        LET x == (loop.p - 1) % LCD_WIDTH
            y == (loop.p - 1) \div LCD_WIDTH
        IN /\ calls = <<[fn |-> "set_windows", x_start |-> x, y_start |-> y,
                         x_end |-> x + 1, y_end |-> y + 1]>>
           /\ Len(wire) = 6
           /\ wire[6] = Pix(Solid(1))

\* the pixels of clear with x < 239 and y < 239 are written to their cell
DrawIterBelow239 ==
    (/\ op.fn = "clear" /\ pc \in {"draw_iter", "done"} /\ loop.p >= 1
     /\ (loop.p - 1) % LCD_WIDTH < 239 /\ (loop.p - 1) \div LCD_WIDTH < 239) =>
        /\ calls = <<[fn |-> "set_windows", x_start |-> (loop.p - 1) % LCD_WIDTH,
                      y_start |-> (loop.p - 1) \div LCD_WIDTH,
                      x_end |-> ((loop.p - 1) % LCD_WIDTH) + 1,
                      y_end |-> ((loop.p - 1) \div LCD_WIDTH) + 1]>>
        /\ Len(wire) = 6
        /\ wire[6] = Pix(Solid(1))


(***************************************************************************)
(* SpecTiles: one tile of each noise reveal for every value get_u8 can     *)
(* return, each draw taken on its own: the generator state 23 * v makes    *)
(* get_u8 return v.                                                        *)
(***************************************************************************)
MaxJitByte == 1

ByteState(v) == U32(0, GetDivisor * v)

\* the values tried for the draws of full_image_noisy
EdgeBytes == {0} \cup (216..240) \cup {255}
JitBytes == (0..MaxJitByte) \cup {4, 9, 255}

InitTiles ==
    /\ \/ pc = "noisy1" /\ op = [fn |-> "full_image_noisy1"] /\ loop = [i |-> 0]
       \/ pc = "noisy20" /\ op = [fn |-> "full_image_noisy20"] /\ loop = [i |-> 0]
       \/ /\ pc = "noisy" /\ op = [fn |-> "full_image_noisy"]
          /\ \E p \in 1..Len(NoisyJitter) : loop = [p |-> p, i |-> 0]
    /\ ret = None /\ imgs = <<>>
    /\ RngIdle /\ LcdIdle /\ MainIdle

AnyTile1 ==
    /\ pc = "noisy1" /\ draws[1] = 0
    /\ \E a \in U8, b \in U8 :
          TileStep(full_image_noisy1_tile(<<ByteState(a), ByteState(b)>>),
                   <<ByteState(a), ByteState(b)>>, "noisy1", [i |-> loop.i + 1])

AnyTile20 ==
    /\ pc = "noisy20" /\ draws[1] = 0
    /\ \E a \in U8, b \in U8 :
          TileStep(full_image_noisy20_tile(<<ByteState(a), ByteState(b)>>),
                   <<ByteState(a), ByteState(b)>>, "noisy20", [i |-> loop.i + 1])

AnyTile ==
    /\ pc = "noisy" /\ draws[1] = 0
    /\ \E a \in EdgeBytes, b \in EdgeBytes, c \in JitBytes, e \in JitBytes :
          TileStep(full_image_noisy_f(NoisyJitter[loop.p],
                                      <<ByteState(a), ByteState(b), ByteState(c), ByteState(e)>>),
                   <<ByteState(a), ByteState(b), ByteState(c), ByteState(e)>>,
                   "noisy", [p |-> loop.p, i |-> loop.i + 1])

NextTiles == AnyTile1 \/ AnyTile20 \/ AnyTile

SpecTiles == InitTiles /\ [][NextTiles]_vars

\* C20: whatever the generator returns, each tile of full_image_noisy1,
\* full_image_noisy20 and full_image_noisy has a window with
\* 0 <= x0 < x1 <= 240 and 0 <= y0 < y1 <= 240, one row high and 1, 20 and
\* 11 columns wide, takes the source bytes [offset, offset + 2*width)
\* inside the 115200-byte buffer, and no u8 operation computing it
\* overflows or divides by zero
C20_TilesInside ==
    (op.fn \in {"full_image_noisy1", "full_image_noisy20", "full_image_noisy"}) =>
        /\ pc # "panic"
        /\ calls # <<>> =>
              LET width == CASE op.fn = "full_image_noisy1" -> 1
                             [] op.fn = "full_image_noisy20" -> 20
                             [] op.fn = "full_image_noisy" -> 11
              IN /\ Len(calls) = 1 /\ ValidWindow(calls[1])
                 /\ calls[1].y_end = calls[1].y_start + 1
                 /\ calls[1].x_end = calls[1].x_start + width
                 /\ win = [xs |-> calls[1].x_start, xe |-> calls[1].x_end - 1,
                           ys |-> calls[1].y_start, ye |-> calls[1].y_start]
                 /\ Len(wire) = 6 /\ wire[6].d.kind = "slice"
                 /\ 0 <= wire[6].d.from /\ wire[6].d.to <= 115200
                 /\ wire[6].d.to = wire[6].d.from + 2 * width

C20_Witness ==
    /\ op.fn = "full_image_noisy" /\ loop = [p |-> 1, i |-> 1]
    /\ calls = <<[fn |-> "Lcd::set_windows", x_start |-> 227, y_start |-> 238,
                  x_end |-> 238, y_end |-> 239]>>
    /\ wire[6] = Pix(Slice(2 * (229 * 240 + 218), 2 * (229 * 240 + 218) + 22))

====
